---- MODULE Spec2Model ----
(***************************************************************************)
(* KaidokuPDF (image_pdf_ocr): the parallel OCR dispatcher (_parallel.py), *)
(* the document assemblers (_pdf.py) and the adaptive OCR engine           *)
(* (_engine.py) as state machines, and the pure functions of _engine.py    *)
(* and _parallel.py as operators applied to inputs drawn from small sets.  *)
(*                                                                         *)
(* A Python str is a sequence of characters, each a one-element string; a  *)
(* word of recognized text ("Hello") stands for its run of non-whitespace  *)
(* characters and is one element.                                          *)
(*                                                                         *)
(* Python indices are 0-based; sequences here are 1-based, so the image    *)
(* the code calls images[i] is dImages[i + 1] and progress (i + 1, total)  *)
(* is the report made for dImages[i + 1].                                  *)
(***************************************************************************)
EXTENDS Integers, Sequences, FiniteSets, TLC

\* ------------------------------------------------------------------ bounds
MaxPages == 3
MaxWorkers == 2

\* Page contents of an input document / pixels of an input image.
PageSet == {1, 2}

\* ------------------------------------------------------------------ state
VARIABLES
    entry,           \* the entry point that was called
    inputDoc,        \* the input: page contents (PDF pages, image files or images)
    maxWorkers,      \* what _get_max_workers() returns in this process
    parallelEnabled, \* what _is_parallel_enabled() returns in this process
    cancelSet,       \* cancel_event.is_set()
    cancelPreset,    \* the cancel event was already set when the entry point was called
    facts,           \* what the entry point finds: engine, input, output path, font
    \* run_parallel_ocr / run_parallel_ocr_with_text
    dpc,             \* position inside the dispatcher
    dImages,         \* images
    dWorker,         \* worker_fn: "rows" (_ocr_worker) or "text" (_ocr_worker_with_text)
    futures,         \* future_to_index with each future's state
    poolResults,     \* results: dict index -> result (_run_with_pool)
    completedCount,  \* completed_count (_run_with_pool)
    seqIdx,          \* i of _run_sequential (1-based)
    seqResults,      \* results of _run_sequential
    dReturn,         \* the list the dispatcher returned
    dError,          \* the exception that escaped the dispatcher
    dProgress,       \* progress_callback calls of this dispatch: <<completed, total>>
    dOrder,          \* indices in the order their results were recorded
    poolCreated,     \* number of ProcessPoolExecutor instances created
    poolError,       \* the exception that ended _run_with_pool
    fellBack,        \* the except (OSError, RuntimeError) handler ran _run_sequential
    cancelledFutures, \* futures for which f.cancel() succeeded
    \* create_searchable_pdf(_from_images) / extract_text_from_image_pdf / extract_text_to_file
    apc,             \* position inside the entry point
    chunkStart,      \* chunk_start (0-based, as in the code)
    pageIdx,         \* page_idx of the Phase A loop (0-based)
    chunkImages,     \* pil_images / prepared_images of the current chunk
    ocrResults,      \* ocr_results of the current chunk
    asmIdx,          \* position of the Phase C loop in the chunk (1-based)
    completedPages,  \* completed_pages / completed_images
    outPages,        \* pages of output_doc
    outSaved,        \* output_doc.save(...) was called
    texts,           \* texts of extract_text_from_image_pdf
    textReturn,      \* what extract_text_from_image_pdf returned
    fileWritten,     \* output_path.write_text(...) was called
    aError,          \* the exception that escaped the entry point
    aDetail,         \* which raise statement made it (its message)
    aCause,          \* the exception first raised, before any except clause
    aStage,          \* the position at which it was raised
    prepareCalled,   \* _prepare_output_path ran (it creates a missing parent directory)
    messages,        \* messages given to _dispatch_progress
    \* _perform_adaptive_ocr / _run_ocr_with_best_config on one image
    engConfigs,      \* _TESSERACT_CONFIGS
    epc,             \* position inside _perform_adaptive_ocr
    engPass,         \* "base" (the RGB image) or "pre" (the preprocessed image)
    cfgIdx,          \* position of the for loop over _TESSERACT_CONFIGS (1-based)
    bestFrame,       \* best_frame (NoFrame is None)
    bestAverage,     \* best_average
    passCalls,       \* _image_to_data calls made by the running pass
    baseCalls,       \* _image_to_data calls the baseline pass made
    baseFrame,       \* base_frame
    baseAverage,     \* base_average
    engResult,       \* the AdaptiveOCRResult returned
    \* one call of a pure function (entry names it)
    fnArg,           \* the argument
    fnOut,           \* the return value
    fnDone           \* the call returned

envVars == <<entry, inputDoc, maxWorkers, parallelEnabled, cancelPreset, facts>>
dispVars == <<dpc, dImages, dWorker, futures, poolResults, completedCount, seqIdx,
              seqResults, dReturn, dError, dProgress, dOrder, poolCreated, poolError,
              fellBack, cancelledFutures>>
asmRest == <<apc, chunkStart, pageIdx, chunkImages, ocrResults, asmIdx, completedPages,
             outPages, outSaved, texts, textReturn, fileWritten, aError, aDetail,
             aCause, aStage, prepareCalled>>
aRaised == <<aError, aDetail, aCause, aStage>>
aFail == <<aRaised, prepareCalled>>
asmVars == <<asmRest, messages>>
engVars == <<engConfigs, epc, engPass, cfgIdx, bestFrame, bestAverage,
             passCalls, baseCalls, baseFrame, baseAverage, engResult>>
funVars == <<fnArg, fnOut, fnDone>>
docVars == <<envVars, cancelSet, dispVars, asmVars, funVars>>
ctx == <<envVars, engVars, funVars>>
vars == <<docVars, engVars>>

DispatcherEntries == {"run_parallel_ocr", "run_parallel_ocr_with_text"}
PdfEntries == {"create_searchable_pdf", "create_searchable_pdf_from_images"}
TextEntries == {"extract_text_from_image_pdf", "extract_text_to_file"}
AssemblerEntries == PdfEntries \cup TextEntries
Entries == DispatcherEntries \cup AssemblerEntries

\* ------------------------------------------------------------------ exceptions
\* _exceptions.py: the base class each exception class names.
ExceptionBase(exc) ==
    CASE exc = "OCRConversionError" -> "RuntimeError"
      [] exc = "OCRCancelledError" -> "RuntimeError"
      [] exc = "PDFPasswordRemovalError" -> "RuntimeError"
      [] exc = "TesseractError" -> "RuntimeError"
      [] exc = "BrokenProcessPool" -> "RuntimeError"
      [] exc = "FileDataError" -> "RuntimeError"
      [] exc = "PermissionError" -> "OSError"
      [] exc = "FileNotFoundError" -> "OSError"
      [] exc = "RuntimeError" -> "Exception"
      [] exc = "OSError" -> "Exception"
      [] exc = "ValueError" -> "Exception"
      [] OTHER -> "Exception"

\* issubclass(exc, cls) over the one-level hierarchy above.
IsSubclass(exc, cls) == exc = cls \/ ExceptionBase(exc) = cls \/ cls = "Exception"

\* Variant: the handler names OSError alone.
HandlerCatchesOSErrorOnly(exc) == IsSubclass(exc, "OSError")

\* run_parallel_ocr: except (OSError, RuntimeError)
PoolHandlerCatches(exc) == IsSubclass(exc, "OSError") \/ IsSubclass(exc, "RuntimeError")

\* What a worker (or the pool machinery) can raise.
PoolFailures == {"BrokenProcessPool", "ValueError"}
WorkerFailures == {"TesseractError", "ValueError"}

\* ------------------------------------------------------------------ strings
\* str.split() and str.strip() without arguments work on whitespace.
Whitespace == {" ", "\n", "\r", "\t"}
IsSpace(c) == c \in Whitespace

\* raw.split(): the maximal runs of non-whitespace characters, in order.
RECURSIVE SplitFrom(_, _)
SplitFrom(str, cur) ==
    IF str = <<>> THEN (IF cur = <<>> THEN <<>> ELSE <<cur>>)
    ELSE IF IsSpace(Head(str))
         THEN (IF cur = <<>> THEN <<>> ELSE <<cur>>) \o SplitFrom(Tail(str), <<>>)
         ELSE SplitFrom(Tail(str), Append(cur, Head(str)))

Split(str) == SplitFrom(str, <<>>)

\* sep.join(parts)
RECURSIVE Join(_, _)
Join(sep, parts) ==
    IF parts = <<>> THEN <<>>
    ELSE IF Len(parts) = 1 THEN parts[1]
    ELSE parts[1] \o sep \o Join(sep, Tail(parts))

\* str.lstrip(), str.rstrip(), str.strip()
RECURSIVE LStrip(_)
LStrip(str) ==
    IF str # <<>> /\ IsSpace(Head(str)) THEN LStrip(Tail(str)) ELSE str

RECURSIVE RStrip(_)
RStrip(str) ==
    IF str # <<>> /\ IsSpace(str[Len(str)])
    THEN RStrip(SubSeq(str, 1, Len(str) - 1)) ELSE str

Strip(str) == RStrip(LStrip(str))

\* ------------------------------------------------------------------ text reconstruction
\* A conf cell: <<"num", n>> is the number n, <<"nan", 0>> is NaN, and
\* <<"str", 0>> is a value float() does not convert (None, "abc").
\* float(conf), with except (TypeError, ValueError): conf = -1.0
ToFloat(conf) == IF conf[1] = "str" THEN <<"num", -1>> ELSE conf

\* conf < 0 on floats: a comparison with NaN is False.
BelowZero(conf) == conf[1] = "num" /\ conf[2] < 0

\* Variant: a box with empty trimmed text is not skipped.
SkippedByConfOnly(conf, text_val) == BelowZero(conf)

\* if conf < 0 or not text_val: continue
Skipped(conf, text_val) == BelowZero(conf) \/ text_val = <<>>

\* Variant: only a change of block starts a new paragraph.
BlockBreakOnly(prev, row) ==
    prev.block # -1 /\ row.block_num # prev.block

\* Variant: the first box is compared with the initial -1 values as well.
ParagraphBreakFromStart(prev, row) ==
    row.block_num # prev.block \/ row.par_num # prev.par

\* prev_block != -1 and (block != prev_block or par != prev_par)
ParagraphBreak(prev, row) ==
    prev.block # -1 /\ (row.block_num # prev.block \/ row.par_num # prev.par)

\* prev_line != -1 and line != prev_line
LineBreak(prev, row) == prev.line # -1 /\ row.line_num # prev.line

\* if current_line_words: lines.append(" ".join(current_line_words))
FlushLine(lines, words) ==
    IF words # <<>> THEN Append(lines, Join(<<" ">>, words)) ELSE lines

\* The for loop over frame.itertuples() from row i on, and the flush after it.
RECURSIVE ReconstructLoop(_, _, _, _, _)
ReconstructLoop(frame, i, lines, words, prev) ==
    IF i > Len(frame) THEN FlushLine(lines, words)
    ELSE LET row == frame[i]
             text_val == Strip(row.text)
             conf == ToFloat(row.conf)
         IN IF Skipped(conf, text_val)
            THEN ReconstructLoop(frame, i + 1, lines, words, prev)
            ELSE LET here == [block |-> row.block_num, par |-> row.par_num,
                              line |-> row.line_num]
                 IN IF ParagraphBreak(prev, row)
                    THEN ReconstructLoop(frame, i + 1,
                             Append(FlushLine(lines, words), <<>>), <<text_val>>, here)
                    ELSE IF LineBreak(prev, row)
                    THEN ReconstructLoop(frame, i + 1,
                             FlushLine(lines, words), <<text_val>>, here)
                    ELSE ReconstructLoop(frame, i + 1,
                             lines, Append(words, text_val), here)

\* _reconstruct_text_from_frame(frame)
ReconstructTextFromFrame(frame) ==
    IF frame = <<>> THEN <<>>
    ELSE Join(<<"\n">>, ReconstructLoop(frame, 1, <<>>, <<>>,
                                        [block |-> -1, par |-> -1, line |-> -1]))

\* ------------------------------------------------------------------ text overlay
\* _TEXT_RENDER_CONFIDENCE_THRESHOLD = 50.0
TextRenderConfidenceThreshold == 50

\* pd.to_numeric(frame["conf"], errors="coerce"): what is not a number is NaN
ToNumeric(conf) == IF conf[1] = "str" THEN <<"nan", 0>> ELSE conf

\* Variant: a confidence that is NaN passes the mask.
AtLeastOrNaN(conf, threshold) == conf[1] = "nan" \/ conf[2] >= threshold

\* confidences >= threshold: a comparison with NaN is False
AtLeast(conf, threshold) == conf[1] = "num" /\ conf[2] >= threshold

\* A text cell that is None / NaN, and filtered["text"].fillna("")
TextMissing == <<"NaN">>
FillNa(text) == IF text = TextMissing THEN <<>> ELSE text

\* frame.loc[mask] from row i on, the text column filled
RECURSIVE MaskedRows(_, _, _)
MaskedRows(rows, threshold, i) ==
    IF i > Len(rows) THEN <<>>
    ELSE IF AtLeast(ToNumeric(rows[i].conf), threshold)
    THEN <<[rows[i] EXCEPT !.text = FillNa(@)]>> \o MaskedRows(rows, threshold, i + 1)
    ELSE MaskedRows(rows, threshold, i + 1)

\* _filter_frame_by_confidence(frame, threshold); a frame is its rows and
\* whether it has a conf column
FilterFrameByConfidence(frame, threshold) ==
    IF ~frame.has_conf THEN <<>> ELSE MaskedRows(frame.rows, threshold, 1)

\* A coordinate cell: <<"num", v>>, <<"nan", 0>>, or <<"str", 0>> for a value
\* float() raises TypeError / ValueError on (None, "abc").
\* return None, None, None
NoCoordinates == [some |-> FALSE, x |-> 0, y |-> 0, h |-> 0]

\* _extract_coordinates(row)
ExtractCoordinates(row) ==
    LET cells == <<row.left, row.top, row.height>>
    IN  IF \E k \in 1..3 : cells[k][1] = "str" THEN NoCoordinates
        ELSE IF \E k \in 1..3 : cells[k][1] = "nan" THEN NoCoordinates
        ELSE [some |-> TRUE, x |-> row.left[2], y |-> row.top[2], h |-> row.height[2]]

\* new_page.insert_text(...) raises RuntimeError for this word
InsertTextRaises(row) == row.glyph = "bad"

\* Variant: a failed insertion ends the loop over the page's rows.
RowsAfterFailureNone(rows, i) == Len(rows) + 1

\* except RuntimeError: continue -- the loop goes on with the next row
RowsAfterFailure(rows, i) == i + 1

\* _POINTS_PER_INCH, _PDF_RENDER_DPI
PointsPerInch == 72
PdfRenderDpi == 300

\* coordinate_scale = _POINTS_PER_INCH / _PDF_RENDER_DPI of
\* create_searchable_pdf_from_images, as <<numerator, denominator>>;
\* create_searchable_pdf inserts the coordinates as they are.
CoordinateScale(e) ==
    IF e = "create_searchable_pdf_from_images"
    THEN <<PointsPerInch, PdfRenderDpi>> ELSE <<1, 1>>

\* insert_text((x * s, (y + h) * s), text_val, fontsize=h * s * 0.8, render_mode=3),
\* each number as <<numerator, denominator>>
InsertedWord(text_val, x, y, h, scale) ==
    [text |-> text_val,
     x |-> <<x * scale[1], scale[2]>>,
     y |-> <<(y + h) * scale[1], scale[2]>>,
     fontsize |-> <<8 * h * scale[1], 10 * scale[2]>>]

\* for row in filtered_rows, from row i on: the words inserted into the page
RECURSIVE OverlayLoop(_, _, _, _)
OverlayLoop(rows, i, inserted, scale) ==
    IF i > Len(rows) THEN inserted
    ELSE LET row == rows[i]
             text_val == Strip(row.text)
             xyh == ExtractCoordinates(row)
         IN IF text_val = <<>> THEN OverlayLoop(rows, i + 1, inserted, scale)
            ELSE IF ~xyh.some THEN OverlayLoop(rows, i + 1, inserted, scale)
            ELSE IF InsertTextRaises(row)
            THEN OverlayLoop(rows, RowsAfterFailure(rows, i), inserted, scale)
            ELSE OverlayLoop(rows, i + 1,
                     Append(inserted,
                            InsertedWord(text_val, xyh.x, xyh.y, xyh.h, scale)),
                     scale)

\* The invisible text of one page
PageOverlay(filtered_rows, scale) == OverlayLoop(filtered_rows, 1, <<>>, scale)

\* ------------------------------------------------------------------ workers
\* _ocr_worker / _ocr_worker_with_text applied to one image. `where` records the
\* process that computed it ("pool" or "seq"); OCR itself is a function of the image.
WorkerResult(worker, image, where) == [src |-> image, kind |-> worker, by |-> where]

\* _image_to_bytes: the image as PPM bytes; Image.open(buf) in the worker process
\* reads the image back (PPM is lossless for the RGB images the assemblers make).
ImageToBytes(image) == <<"P6", image>>
BytesToImage(data) == data[2]

\* _ocr_worker_bytes / _ocr_worker_with_text_bytes, run in a pool process.
BytesWorkerResult(worker, data) == WorkerResult(worker, BytesToImage(data), "pool")

\* Variant: the image count is not looked at.
UseParallelAnyCount(enabled, total) == enabled

\* use_parallel = _is_parallel_enabled() and total > 1
UseParallel(enabled, total) == enabled /\ total > 1

\* Variant: list(results.values()), the dict's insertion (completion) order.
ResultsInCompletionOrder(results, total) == [i \in 1..total |-> results[dOrder[i]]]

\* _run_with_pool: return [results[i] for i in range(total)]
OrderedResults(results, total) == [i \in 1..total |-> results[i]]

\* _run_sequential: results = []
SeqInitialResults == <<>>

\* Variant: the fallback resumes after what the pool had collected.
SeqResumeAfterPool(collected) == collected + 1

\* _run_sequential: for i, image in enumerate(images) starts at the first image,
\* whatever the pool had collected before it failed.
SeqFirstIndex(collected) == 1

\* for f in future_to_index: f.cancel() -- the futures it cancels: a running or
\* finished future cannot be cancelled.
CancelAll(fs) == {k \in DOMAIN fs : fs[k] = "pending"}

\* Variant: a pool process is not free again after its task ended.
RunningOrEnded == {i \in DOMAIN futures : futures[i] # "pending"}

\* The tasks the pool's processes are running.
Running == {i \in DOMAIN futures : futures[i] = "running"}

\* ------------------------------------------------------------------ dispatcher
Total == Len(dImages)

\* Variant: _ocr_progress reports the dispatcher's count as it is.
OnProgressWithoutBase(completed) ==
    IF apc = "ocr"
    THEN Append(messages, [kind |-> "progress", count |-> completed])
    ELSE messages

\* progress_callback(completed, total): the assemblers pass _ocr_progress, which
\* reports _base + completed through _dispatch_progress.
OnProgress(completed) ==
    IF apc = "ocr"
    THEN Append(messages, [kind |-> "progress", count |-> completedPages + completed])
    ELSE messages

\* The first lines of run_parallel_ocr / run_parallel_ocr_with_text.
\* Variant: an empty list takes the same path as any other list.
EmptyNotSpecial(total) == FALSE

\* if total == 0: return []
EmptyReturnsAtOnce(total) == total = 0

EnterDispatch(images, worker) ==
    /\ dImages' = images
    /\ dWorker' = worker
    /\ futures' = <<>>
    /\ poolResults' = <<>>
    /\ completedCount' = 0
    /\ seqIdx' = SeqFirstIndex(0)
    /\ seqResults' = SeqInitialResults
    /\ dReturn' = <<>>
    /\ dError' = "none"
    /\ dProgress' = <<>>
    /\ dOrder' = <<>>
    /\ poolError' = "none"
    /\ fellBack' = FALSE
    /\ cancelledFutures' = {}
    /\ dpc' = IF EmptyReturnsAtOnce(Len(images)) THEN "returned"
              ELSE IF UseParallel(parallelEnabled, Len(images)) THEN "pool_start"
              ELSE "seq_check"

\* A direct call of run_parallel_ocr(images) / run_parallel_ocr_with_text(images).
DirectCall ==
    /\ entry \in DispatcherEntries
    /\ dpc = "called"
    /\ EnterDispatch(inputDoc, IF entry = "run_parallel_ocr" THEN "rows" ELSE "text")
    /\ UNCHANGED <<ctx, cancelSet, poolCreated, asmVars>>

\* _run_with_pool ended with exception exc: its executor is shut down and its
\* locals (future_to_index, results) are gone; run_parallel_ocr's handler either
\* starts _run_sequential on the same images or lets exc escape.
PoolRaise(exc) ==
    /\ poolError' = exc
    /\ futures' = <<>>
    /\ poolResults' = <<>>
    /\ dOrder' = <<>>
    /\ IF PoolHandlerCatches(exc)
       THEN /\ fellBack' = TRUE
            /\ dpc' = "seq_check"
            /\ seqIdx' = SeqFirstIndex(completedCount)
            /\ seqResults' = SeqInitialResults
            /\ dError' = dError
       ELSE /\ dError' = exc
            /\ dpc' = "raised"
            /\ UNCHANGED <<fellBack, seqIdx, seqResults>>

\* with ProcessPoolExecutor(...) as executor: every image is submitted.
PoolStart ==
    /\ dpc = "pool_start"
    /\ poolCreated' = poolCreated + 1
    /\ futures' = [i \in 1..Total |-> "pending"]
    /\ dpc' = "pool_collect"
    /\ UNCHANGED <<ctx, cancelSet, dImages, dWorker, poolResults, completedCount,
                   seqIdx, seqResults, dReturn, dError, dProgress, dOrder, poolError,
                   fellBack, cancelledFutures, asmVars>>

\* The pool cannot start its processes or take the submissions (OSError).
PoolStartFail ==
    /\ dpc = "pool_start"
    /\ poolCreated' = poolCreated + 1
    /\ PoolRaise("OSError")
    /\ UNCHANGED <<ctx, cancelSet, dImages, dWorker, completedCount, dReturn,
                   dProgress, cancelledFutures, asmVars>>

\* A worker process takes a pending task (at most max_workers run at once).
WorkerStart(i) ==
    /\ dpc = "pool_collect"
    /\ futures[i] = "pending"
    /\ Cardinality(Running) < maxWorkers
    /\ futures' = [futures EXCEPT ![i] = "running"]
    /\ UNCHANGED <<ctx, cancelSet, dpc, dImages, dWorker, poolResults, completedCount,
                   seqIdx, seqResults, dReturn, dError, dProgress, dOrder, poolCreated,
                   poolError, fellBack, cancelledFutures, asmVars>>

\* The task ends (with a result or an exception): its future is completed.
WorkerFinish(i) ==
    /\ dpc = "pool_collect"
    /\ futures[i] = "running"
    /\ futures' = [futures EXCEPT ![i] = "done"]
    /\ UNCHANGED <<ctx, cancelSet, dpc, dImages, dWorker, poolResults, completedCount,
                   seqIdx, seqResults, dReturn, dError, dProgress, dOrder, poolCreated,
                   poolError, fellBack, cancelledFutures, asmVars>>

\* Variant: the collection loop does not look at the cancel event.
CollectIgnoresCancel(cancel) == FALSE

\* if cancel_event and cancel_event.is_set(), at the head of the as_completed loop
CollectSeesCancel(cancel) == cancel

\* for future in as_completed(...): cancel is not set; results[idx] = future.result()
PoolCollect(i) ==
    /\ dpc = "pool_collect"
    /\ futures[i] = "done"
    /\ ~CollectSeesCancel(cancelSet)
    /\ futures' = [futures EXCEPT ![i] = "collected"]
    /\ poolResults' = [k \in DOMAIN poolResults \cup {i} |->
                         IF k = i THEN BytesWorkerResult(dWorker, ImageToBytes(dImages[i]))
                         ELSE poolResults[k]]
    /\ completedCount' = completedCount + 1
    /\ dOrder' = Append(dOrder, i)
    /\ dProgress' = Append(dProgress, <<completedCount + 1, Total>>)
    /\ messages' = OnProgress(completedCount + 1)
    /\ UNCHANGED <<ctx, cancelSet, dpc, dImages, dWorker, seqIdx, seqResults, dReturn,
                   dError, poolCreated, poolError, fellBack, cancelledFutures, asmRest>>

\* future.result() raises what the task raised, or the pool broke.
PoolCollectRaise(i, exc) ==
    /\ dpc = "pool_collect"
    /\ futures[i] = "done"
    /\ ~CollectSeesCancel(cancelSet)
    /\ PoolRaise(exc)
    /\ UNCHANGED <<ctx, cancelSet, dImages, dWorker, completedCount, dReturn,
                   dProgress, poolCreated, cancelledFutures, asmVars>>

\* The cancel event is set when a completed future is taken: f.cancel() on every
\* future (only a pending one is cancelled), then raise OCRCancelledError.
PoolCollectCancelled(i) ==
    /\ dpc = "pool_collect"
    /\ futures[i] = "done"
    /\ CollectSeesCancel(cancelSet)
    /\ cancelledFutures' = CancelAll(futures)
    /\ PoolRaise("OCRCancelledError")
    /\ UNCHANGED <<ctx, cancelSet, dImages, dWorker, completedCount, dReturn,
                   dProgress, poolCreated, asmVars>>

\* The as_completed loop has yielded every future.
PoolReturn ==
    /\ dpc = "pool_collect"
    /\ \A i \in DOMAIN futures : futures[i] = "collected"
    /\ dReturn' = OrderedResults(poolResults, Total)
    /\ dpc' = "returned"
    /\ UNCHANGED <<ctx, cancelSet, dImages, dWorker, futures, poolResults,
                   completedCount, seqIdx, seqResults, dError, dProgress, dOrder,
                   poolCreated, poolError, fellBack, cancelledFutures, asmVars>>

\* Variant: the sequential loop does not look at the cancel event.
SeqIgnoresCancel(cancel) == FALSE

\* _run_sequential: if cancel_event and cancel_event.is_set(), before each image
SeqSeesCancel(cancel) == cancel

\* _run_sequential: the per-image check raises OCRCancelledError or lets the
\* worker start.
SeqCheck ==
    /\ dpc = "seq_check"
    /\ IF SeqSeesCancel(cancelSet)
       THEN dError' = "OCRCancelledError" /\ dpc' = "raised"
       ELSE dError' = dError /\ dpc' = "seq_work"
    /\ UNCHANGED <<ctx, cancelSet, dImages, dWorker, futures, poolResults,
                   completedCount, seqIdx, seqResults, dReturn, dProgress, dOrder,
                   poolCreated, poolError, fellBack, cancelledFutures, asmVars>>

\* result = worker_fn(image); results.append(result)
SeqWork ==
    /\ dpc = "seq_work"
    /\ seqResults' = Append(seqResults, WorkerResult(dWorker, dImages[seqIdx], "seq"))
    /\ dOrder' = Append(dOrder, seqIdx)
    /\ dpc' = "seq_progress"
    /\ UNCHANGED <<ctx, cancelSet, dImages, dWorker, futures, poolResults,
                   completedCount, seqIdx, dReturn, dError, dProgress, poolCreated,
                   poolError, fellBack, cancelledFutures, asmVars>>

\* worker_fn(image) raises.
SeqWorkFail(exc) ==
    /\ dpc = "seq_work"
    /\ dError' = exc
    /\ dpc' = "raised"
    /\ UNCHANGED <<ctx, cancelSet, dImages, dWorker, futures, poolResults,
                   completedCount, seqIdx, seqResults, dReturn, dProgress, dOrder,
                   poolCreated, poolError, fellBack, cancelledFutures, asmVars>>

\* progress_callback(i + 1, total); then the next image, or return results.
SeqProgress ==
    /\ dpc = "seq_progress"
    /\ dProgress' = Append(dProgress, <<seqIdx, Total>>)
    /\ messages' = OnProgress(seqIdx)
    /\ IF seqIdx = Total
       THEN dReturn' = seqResults /\ dpc' = "returned" /\ seqIdx' = seqIdx
       ELSE dReturn' = dReturn /\ dpc' = "seq_check" /\ seqIdx' = seqIdx + 1
    /\ UNCHANGED <<ctx, cancelSet, dImages, dWorker, futures, poolResults,
                   completedCount, seqResults, dError, dOrder, poolCreated, poolError,
                   fellBack, cancelledFutures, asmRest>>

DispatcherStep ==
    \/ DirectCall
    \/ PoolStart
    \/ PoolStartFail
    \/ \E i \in DOMAIN futures : WorkerStart(i)
    \/ \E i \in DOMAIN futures : WorkerFinish(i)
    \/ \E i \in DOMAIN futures : PoolCollect(i)
    \/ \E i \in DOMAIN futures, exc \in PoolFailures : PoolCollectRaise(i, exc)
    \/ \E i \in DOMAIN futures : PoolCollectCancelled(i)
    \/ PoolReturn
    \/ SeqCheck
    \/ SeqWork
    \/ \E exc \in WorkerFailures : SeqWorkFail(exc)
    \/ SeqProgress

\* ------------------------------------------------------------------ assemblers
TotalPages == Len(inputDoc)

Min(a, b) == IF a < b THEN a ELSE b

\* Variant: a chunk holds two pages per worker.
ChunkSizeTwicePerWorker(workers) == IF workers > 1 THEN 2 * workers ELSE 2

\* max(1, workers)
ChunkSizeOf(workers) == IF workers > 1 THEN workers ELSE 1

\* chunk_size = max(1, _get_max_workers())
ChunkSize == ChunkSizeOf(maxWorkers)

\* Variant: one chunk holds the rest of the document.
ChunkEndOfDocument == TotalPages

\* chunk_end = min(chunk_start + chunk_size, total_pages)
ChunkEnd == Min(chunkStart + ChunkSize, TotalPages)

\* Variant: the chunk loop advances by one page.
NextChunkStartByOne == chunkStart + 1

\* range(0, total_pages, chunk_size): the chunk_start of the next iteration
NextChunkStart == chunkStart + ChunkSize

\* Phase A: page.get_pixmap(dpi=300) -> PIL image of a PDF page, or
\* _normalize_image_for_canvas of an image file.
PageImage(e, content) ==
    IF e = "create_searchable_pdf_from_images" THEN 200 + content ELSE 100 + content

\* The worker the entry point's dispatcher call uses.
EntryWorker(e) == IF e \in TextEntries THEN "text" ELSE "rows"

\* _check_cancellation(): raises OCRCancelledError when the event is set.
CheckCancellation(cancel) == cancel

\* Variant: no check between the chunk loop and the save.
FinalCheckSkipped(cancel) == FALSE

\* _check_cancellation() right before output_doc.save(...)
FinalCheckSeesCancel(cancel) == CheckCancellation(cancel)

\* Variant: the body of an entry point has no except clauses.
Untranslated(exc) == exc

\* The except clauses around the body of an entry point: OCRCancelledError is
\* re-raised, everything else becomes OCRConversionError.
Translate(exc) == IF exc = "OCRCancelledError" THEN exc ELSE "OCRConversionError"

\* The except clause of entry point e that catches exc, by its message:
\* "read" (PDFの読み取りに失敗しました), "permission" (PDFを書き込めませんでした。
\* 権限を確認してください), "ocr" (OCR処理に失敗しました), "unexpected" (the
\* except Exception clause).
HandlerDetail(e, exc) ==
    IF IsSubclass(exc, "OCRCancelledError") THEN "cancelled"
    ELSE IF e = "create_searchable_pdf_from_images"
    THEN IF IsSubclass(exc, "PermissionError") THEN "permission"
         ELSE IF IsSubclass(exc, "TesseractError") THEN "ocr"
         ELSE "unexpected"
    ELSE IF IsSubclass(exc, "FileDataError") THEN "read"
         ELSE IF IsSubclass(exc, "TesseractError") THEN "ocr"
         ELSE "unexpected"

\* What leaves the try statement of e when exc is raised in its body.
OuterHandler(e, exc) == [type |-> Translate(exc), detail |-> HandlerDetail(e, exc)]

\* The except clauses around output_doc.save(...) in create_searchable_pdf:
\* PermissionError and Exception both raise OCRConversionError, with the messages
\* "permission" (PDFを書き込めませんでした。権限を確認してください) and "save"
\* (PDFを保存できませんでした). create_searchable_pdf_from_images has none.
SaveHandler(e, exc) ==
    IF e = "create_searchable_pdf"
    THEN [type |-> "OCRConversionError",
          detail |-> IF IsSubclass(exc, "PermissionError") THEN "permission" ELSE "save"]
    ELSE [type |-> exc, detail |-> "none"]

\* What reaches the caller when output_doc.save(...) raises exc: the exception
\* that leaves the save is raised inside the try statement of the entry point.
SaveOutcome(e, exc) == OuterHandler(e, SaveHandler(e, exc).type)

\* The except clauses around write_text in extract_text_to_file
WriteHandler(exc) ==
    [type |-> "OCRConversionError",
     detail |-> IF IsSubclass(exc, "PermissionError") THEN "write_permission"
                ELSE "write"]

\* What the libraries can raise while a page is rasterized or an image is
\* opened, while a page is built, while the document is saved and while the
\* text file is written.
RasterFailures == {"FileDataError", "PermissionError"}
AssembleFailures == {"ValueError"}
SaveFailures == {"PermissionError", "ValueError"}
WriteFailures == {"PermissionError", "OSError"}

\* fitz.Document.save raises ValueError("cannot save with zero pages") for a
\* document without pages.
SaveRejects(pages) == Len(pages) = 0

\* What an entry point finds when it is called.
GoodFacts ==
    [engine |-> TRUE, exists |-> TRUE, suffix |-> TRUE, prepare |-> TRUE,
     font |-> TRUE, opens |-> TRUE]

\* Variant: the input is looked for before the engine.
PreambleChecksInputFirst(e) ==
    IF e = "create_searchable_pdf"
    THEN <<"exists", "engine", "prepare", "font", "opens">>
    ELSE IF e = "create_searchable_pdf_from_images"
    THEN <<"nonempty", "exists", "engine", "suffix", "prepare", "font", "opens">>
    ELSE <<"exists", "engine", "opens">>

\* Variant: the output path is prepared before the input is looked at.
PreambleChecksPrepareFirst(e) ==
    IF e = "create_searchable_pdf"
    THEN <<"engine", "prepare", "exists", "font", "opens">>
    ELSE IF e = "create_searchable_pdf_from_images"
    THEN <<"engine", "prepare", "nonempty", "exists", "suffix", "font", "opens">>
    ELSE <<"engine", "exists", "opens">>

\* The statements of an entry point before its try statement, in order:
\* find_and_set_tesseract_path(), the image list is not empty, the input
\* exists, the output suffix is .pdf, _prepare_output_path,
\* _find_japanese_font_path, fitz.open(input_path) / _determine_canvas_size.
\* extract_text_to_file starts with extract_text_from_image_pdf.
PreambleChecks(e) ==
    IF e = "create_searchable_pdf"
    THEN <<"engine", "exists", "prepare", "font", "opens">>
    ELSE IF e = "create_searchable_pdf_from_images"
    THEN <<"engine", "nonempty", "exists", "suffix", "prepare", "font", "opens">>
    ELSE <<"engine", "exists", "opens">>

CheckPasses(check, f, total) ==
    CASE check = "engine" -> f.engine
      [] check = "nonempty" -> total > 0
      [] check = "exists" -> f.exists
      [] check = "suffix" -> f.suffix
      [] check = "prepare" -> f.prepare
      [] check = "font" -> f.font
      [] check = "opens" -> f.opens

\* The exception a failed check raises.
CheckError(check) ==
    CASE check = "engine" -> [type |-> "OCRConversionError", detail |-> "engine"]
      [] check = "nonempty" -> [type |-> "OCRConversionError", detail |-> "no_images"]
      [] check = "exists" -> [type |-> "FileNotFoundError", detail |-> "missing_input"]
      [] check = "suffix" -> [type |-> "OCRConversionError", detail |-> "bad_suffix"]
      [] check = "prepare" -> [type |-> "OCRConversionError", detail |-> "output_path"]
      [] check = "font" -> [type |-> "OCRConversionError", detail |-> "font"]
      [] check = "opens" -> [type |-> "OCRConversionError", detail |-> "open"]

\* The first check that fails (0: none does).
FirstFailure(checks, f, total) ==
    LET failing == {k \in 1..Len(checks) : ~CheckPasses(checks[k], f, total)}
    IN  IF failing = {} THEN 0
        ELSE CHOOSE k \in failing : \A j \in failing : k <= j

\* _prepare_output_path was reached.
PrepareReached(checks, failed) ==
    \E k \in 1..Len(checks) : checks[k] = "prepare" /\ (failed = 0 \/ k <= failed)

\* The facts an entry point looks at; the others are left TRUE.
FactsOf(e) ==
    LET looked == {PreambleChecks(e)[k] : k \in 1..Len(PreambleChecks(e))}
                  \cup (IF e = "extract_text_to_file" THEN {"prepare"} ELSE {})
    IN  {f \in [engine : BOOLEAN, exists : BOOLEAN, suffix : BOOLEAN,
                prepare : BOOLEAN, font : BOOLEAN, opens : BOOLEAN] :
            /\ "engine" \notin looked => f.engine
            /\ "exists" \notin looked => f.exists
            /\ "suffix" \notin looked => f.suffix
            /\ "prepare" \notin looked => f.prepare
            /\ "font" \notin looked => f.font
            /\ "opens" \notin looked => f.opens}

\* extract_text_from_image_pdf: if total_pages == 0: ...; return "\n"
ZeroPagesReturnsEarly(e) == e \in TextEntries

\* extract_text_from_image_pdf returned (or create_* finished its save).
AfterReturn(e) == IF e = "extract_text_to_file" THEN "prewrite" ELSE "done"

\* An exception leaves the entry point.
RaiseWith(outcome, cause) ==
    /\ apc' = "raised"
    /\ aError' = outcome.type
    /\ aDetail' = outcome.detail
    /\ aCause' = cause
    /\ aStage' = apc

\* exc is raised inside the try statement of the entry point.
Raise(exc) ==
    /\ RaiseWith(OuterHandler(entry, exc), exc)
    /\ prepareCalled' = prepareCalled

\* The entry point starts: the statements before its try statement, then the
\* page count is read and a document without pages is announced.
Begin ==
    /\ entry \in AssemblerEntries
    /\ apc = "called"
    /\ LET checks == PreambleChecks(entry)
           failed == FirstFailure(checks, facts, TotalPages)
       IN  /\ prepareCalled' = PrepareReached(checks, failed)
           /\ IF failed # 0
              THEN /\ RaiseWith(CheckError(checks[failed]), CheckError(checks[failed]).type)
                   /\ UNCHANGED <<messages, textReturn>>
              ELSE /\ UNCHANGED aRaised
                   /\ IF TotalPages = 0
                      THEN /\ messages' = Append(messages,
                                                 [kind |-> "no_pages", count |-> 0])
                           /\ IF ZeroPagesReturnsEarly(entry)
                              THEN apc' = AfterReturn(entry) /\ textReturn' = <<"\n">>
                              ELSE apc' = "chunk" /\ textReturn' = textReturn
                      ELSE /\ messages' = messages
                           /\ apc' = "chunk"
                           /\ textReturn' = textReturn
    /\ UNCHANGED <<ctx, cancelSet, dispVars, chunkStart, pageIdx, chunkImages,
                   ocrResults, asmIdx, completedPages, outPages, outSaved, texts,
                   fileWritten>>

\* for chunk_start in range(0, total_pages, chunk_size)
ChunkHead ==
    /\ apc = "chunk"
    /\ IF chunkStart < TotalPages
       THEN apc' = "raster" /\ pageIdx' = chunkStart
       ELSE apc' = "final_check" /\ pageIdx' = pageIdx
    /\ UNCHANGED <<ctx, cancelSet, dispVars, chunkStart, chunkImages, ocrResults,
                   asmIdx, completedPages, outPages, outSaved, texts, textReturn,
                   fileWritten, aFail, messages>>

\* Phase A, one page: the cancellation check, then the page image.
Raster ==
    /\ apc = "raster"
    /\ IF CheckCancellation(cancelSet)
       THEN /\ Raise("OCRCancelledError")
            /\ UNCHANGED <<chunkImages, pageIdx>>
       ELSE /\ chunkImages' = Append(chunkImages, PageImage(entry, inputDoc[pageIdx + 1]))
            /\ pageIdx' = pageIdx + 1
            /\ apc' = IF pageIdx + 1 = ChunkEnd THEN "dispatch" ELSE "raster"
            /\ UNCHANGED aFail
    /\ UNCHANGED <<ctx, cancelSet, dispVars, chunkStart, ocrResults, asmIdx,
                   completedPages, outPages, outSaved, texts, textReturn, fileWritten,
                   messages>>

\* Phase A, one page: the cancellation check passes and doc[page_idx],
\* get_pixmap or Image.open raises.
RasterFail(exc) ==
    /\ apc = "raster"
    /\ ~CheckCancellation(cancelSet)
    /\ Raise(exc)
    /\ UNCHANGED <<ctx, cancelSet, dispVars, chunkStart, pageIdx, chunkImages,
                   ocrResults, asmIdx, completedPages, outPages, outSaved, texts,
                   textReturn, fileWritten, messages>>

\* Phase B: run_parallel_ocr(pil_images, cancel_event, _ocr_progress) is called.
Dispatch ==
    /\ apc = "dispatch"
    /\ EnterDispatch(chunkImages, EntryWorker(entry))
    /\ apc' = "ocr"
    /\ UNCHANGED <<ctx, cancelSet, poolCreated, chunkStart, pageIdx, chunkImages,
                   ocrResults, asmIdx, completedPages, outPages, outSaved, texts,
                   textReturn, fileWritten, aFail, messages>>

\* What the engine reads on a page image, as the word table the worker passes
\* to _reconstruct_text_from_frame: content 1 is a page of two paragraphs,
\* any other content a blank page. The font has no glyph for the first word.
RecognizedTable(image) ==
    IF image % 100 = 1
    THEN << [text |-> <<"Hello">>, conf |-> <<"num", 90>>,
             block_num |-> 1, par_num |-> 1, line_num |-> 1,
             left |-> <<"num", 10>>, top |-> <<"num", 20>>, height |-> <<"num", 10>>,
             glyph |-> "bad"],
            [text |-> <<"World">>, conf |-> <<"num", 85>>,
             block_num |-> 1, par_num |-> 2, line_num |-> 1,
             left |-> <<"num", 10>>, top |-> <<"num", 40>>, height |-> <<"num", 10>>,
             glyph |-> "ok"] >>
    ELSE <<>>

\* filtered_rows of a (ocr_result, filtered_rows) pair of _ocr_worker
FilteredRows(result) ==
    FilterFrameByConfidence([has_conf |-> TRUE, rows |-> RecognizedTable(result.src)],
                            TextRenderConfidenceThreshold)

\* page_text of a (ocr_result, page_text) pair of _ocr_worker_with_text
PageText(result) == ReconstructTextFromFrame(RecognizedTable(result.src))

\* f"{page_index}": the decimal digits of n >= 0
Digit(d) ==
    CASE d = 0 -> "0" [] d = 1 -> "1" [] d = 2 -> "2" [] d = 3 -> "3" [] d = 4 -> "4"
      [] d = 5 -> "5" [] d = 6 -> "6" [] d = 7 -> "7" [] d = 8 -> "8" [] d = 9 -> "9"

RECURSIVE IntToStr(_)
IntToStr(n) == IF n < 10 THEN <<Digit(n)>> ELSE IntToStr(n \div 10) \o <<Digit(n % 10)>>

\* f"--- ページ {page_index} ---"
PageHeader(n) ==
    <<"-", "-", "-", " ", "ページ", " ">> \o IntToStr(n) \o <<" ", "-", "-", "-">>

\* f"--- ページ {page_index} ---\n{page_text.strip()}\n"
TextBlock(n, page_text) == PageHeader(n) \o <<"\n">> \o Strip(page_text) \o <<"\n">>

\* Variant: the page number starts again at 1 in every chunk.
TextBlocksNumberedPerChunk(results, base) ==
    [k \in 1..Len(results) |-> TextBlock(k, PageText(results[k]))]

\* extract_text_from_image_pdf, Phase C: page_index += 1; texts.append(header + text)
TextBlocks(results, base) ==
    [k \in 1..Len(results) |-> TextBlock(base + k, PageText(results[k]))]

\* "\n".join(texts).strip() + "\n"
JoinTexts(blocks) == Strip(Join(<<"\n">>, blocks)) \o <<"\n">>

\* The dispatcher call ended: its exception goes through the except clauses, or
\* its list is taken (completed_pages += len(pil_images)) and Phase C starts.
AfterDispatch ==
    /\ apc = "ocr"
    /\ dpc \in {"returned", "raised"}
    /\ IF dpc = "raised"
       THEN /\ Raise(dError)
            /\ UNCHANGED <<ocrResults, completedPages, asmIdx, texts, chunkStart,
                           chunkImages>>
       ELSE /\ completedPages' = completedPages + Len(chunkImages)
            /\ UNCHANGED aFail
            /\ IF entry \in TextEntries
               THEN /\ texts' = texts \o TextBlocks(dReturn, Len(texts))
                    /\ chunkStart' = NextChunkStart
                    /\ chunkImages' = <<>>
                    /\ ocrResults' = <<>>
                    /\ apc' = "chunk"
                    /\ asmIdx' = asmIdx
               ELSE /\ ocrResults' = dReturn
                    /\ asmIdx' = 1
                    /\ apc' = "assemble"
                    /\ UNCHANGED <<texts, chunkStart, chunkImages>>
    /\ UNCHANGED <<ctx, cancelSet, dispVars, pageIdx, outPages, outSaved, textReturn,
                   fileWritten, messages>>

\* Phase C, one page: the cancellation check, then the new page with its image
\* and the text of its OCR rows; after the last page the chunk is released.
Assemble ==
    /\ apc = "assemble"
    /\ IF CheckCancellation(cancelSet)
       THEN /\ Raise("OCRCancelledError")
            /\ UNCHANGED <<outPages, asmIdx, chunkStart, chunkImages, ocrResults>>
       ELSE /\ outPages' = Append(outPages,
                               [image |-> chunkImages[asmIdx],
                                ocr |-> ocrResults[asmIdx],
                                words |-> PageOverlay(FilteredRows(ocrResults[asmIdx]),
                                                     CoordinateScale(entry))])
            /\ UNCHANGED aFail
            /\ IF asmIdx = Len(chunkImages)
               THEN /\ chunkStart' = NextChunkStart
                    /\ chunkImages' = <<>>
                    /\ ocrResults' = <<>>
                    /\ asmIdx' = asmIdx
                    /\ apc' = "chunk"
               ELSE /\ asmIdx' = asmIdx + 1
                    /\ apc' = "assemble"
                    /\ UNCHANGED <<chunkStart, chunkImages, ocrResults>>
    /\ UNCHANGED <<ctx, cancelSet, dispVars, pageIdx, completedPages, outSaved, texts,
                   textReturn, fileWritten, messages>>

\* Phase C, one page: the cancellation check passes and new_page or
\* insert_image raises.
AssembleFail(exc) ==
    /\ apc = "assemble"
    /\ ~CheckCancellation(cancelSet)
    /\ Raise(exc)
    /\ UNCHANGED <<ctx, cancelSet, dispVars, chunkStart, pageIdx, chunkImages,
                   ocrResults, asmIdx, completedPages, outPages, outSaved, texts,
                   textReturn, fileWritten, messages>>

\* _check_cancellation() after the chunk loop: before output_doc.save(...), or
\* before extract_text_from_image_pdf returns its text.
FinalCheck ==
    /\ apc = "final_check"
    /\ IF (IF entry \in PdfEntries THEN FinalCheckSeesCancel(cancelSet)
           ELSE CheckCancellation(cancelSet))
       THEN Raise("OCRCancelledError") /\ textReturn' = textReturn
       ELSE /\ UNCHANGED aFail
            /\ IF entry \in PdfEntries
               THEN apc' = "save" /\ textReturn' = textReturn
               ELSE apc' = AfterReturn(entry) /\ textReturn' = JoinTexts(texts)
    /\ UNCHANGED <<ctx, cancelSet, dispVars, chunkStart, pageIdx, chunkImages,
                   ocrResults, asmIdx, completedPages, outPages, outSaved, texts,
                   fileWritten, messages>>

\* output_doc.save(output_path, garbage=4, deflate=True, clean=True)
Save ==
    /\ apc = "save"
    /\ IF SaveRejects(outPages)
       THEN /\ RaiseWith(SaveOutcome(entry, "ValueError"), "ValueError")
            /\ UNCHANGED <<outSaved, prepareCalled>>
       ELSE /\ outSaved' = TRUE
            /\ apc' = "done"
            /\ UNCHANGED aFail
    /\ UNCHANGED <<ctx, cancelSet, dispVars, chunkStart, pageIdx, chunkImages,
                   ocrResults, asmIdx, completedPages, outPages, texts, textReturn,
                   fileWritten, messages>>

\* output_doc.save(...) raises: the file cannot be written.
SaveFail(exc) ==
    /\ apc = "save"
    /\ ~SaveRejects(outPages)
    /\ RaiseWith(SaveOutcome(entry, exc), exc)
    /\ UNCHANGED <<ctx, cancelSet, dispVars, chunkStart, pageIdx, chunkImages,
                   ocrResults, asmIdx, completedPages, outPages, outSaved, texts,
                   textReturn, fileWritten, prepareCalled, messages>>

\* Variant: write_text is not guarded.
PreWriteIgnoresCancel(cancel) == FALSE

\* extract_text_to_file: if cancel_event and cancel_event.is_set()
PreWriteSeesCancel(cancel) == cancel

\* extract_text_to_file after extract_text_from_image_pdf returned:
\* _prepare_output_path, then the cancellation check that guards write_text.
PreWriteCheck ==
    /\ apc = "prewrite"
    /\ prepareCalled' = TRUE
    /\ IF ~CheckPasses("prepare", facts, TotalPages)
       THEN RaiseWith(CheckError("prepare"), CheckError("prepare").type)
       ELSE IF PreWriteSeesCancel(cancelSet)
       THEN RaiseWith([type |-> "OCRCancelledError", detail |-> "cancelled"],
                      "OCRCancelledError")
       ELSE apc' = "write" /\ UNCHANGED aRaised
    /\ UNCHANGED <<ctx, cancelSet, dispVars, chunkStart, pageIdx, chunkImages,
                   ocrResults, asmIdx, completedPages, outPages, outSaved, texts,
                   textReturn, fileWritten, messages>>

\* output_path.write_text(text, encoding="utf-8")
WriteText ==
    /\ apc = "write"
    /\ fileWritten' = TRUE
    /\ apc' = "done"
    /\ UNCHANGED <<ctx, cancelSet, dispVars, chunkStart, pageIdx, chunkImages,
                   ocrResults, asmIdx, completedPages, outPages, outSaved, texts,
                   textReturn, aFail, messages>>

\* output_path.write_text(...) raises.
WriteFail(exc) ==
    /\ apc = "write"
    /\ RaiseWith(WriteHandler(exc), exc)
    /\ UNCHANGED <<ctx, cancelSet, dispVars, chunkStart, pageIdx, chunkImages,
                   ocrResults, asmIdx, completedPages, outPages, outSaved, texts,
                   textReturn, fileWritten, prepareCalled, messages>>

AssemblerStep ==
    \/ Begin
    \/ ChunkHead
    \/ Raster
    \/ \E exc \in RasterFailures : RasterFail(exc)
    \/ Dispatch
    \/ AfterDispatch
    \/ Assemble
    \/ \E exc \in AssembleFailures : AssembleFail(exc)
    \/ FinalCheck
    \/ Save
    \/ \E exc \in SaveFailures : SaveFail(exc)
    \/ PreWriteCheck
    \/ WriteText
    \/ \E exc \in WriteFailures : WriteFail(exc)

\* ------------------------------------------------------------------ engine
\* Bounds of the engine model: PSM candidates configured, rows of a word table.
MaxPsm == 3
MaxRows == 2

\* _EARLY_STOP_CONFIDENCE, _AVERAGE_CONFIDENCE_THRESHOLD (default)
EarlyStopConfidence == 90
AverageConfidenceThreshold == 65

\* PSM numbers a configuration can name; conf values of a recognized row (-1 is
\* the engine's "no text here").
PsmSet == {3, 6, 11}
ConfSet == {-1, 50, 80, 100}

\* A word table, by the conf column of its rows.
Frames == UNION {[1..n -> ConfSet] : n \in 0..MaxRows}
PsmInputs == UNION {[1..n -> PsmSet] : n \in 0..MaxPsm}

\* Averages are exact rationals <<numerator, denominator>>, denominator > 0.
AvgGE(a, b) == a[1] * b[2] >= b[1] * a[2]
AvgGT(a, b) == a[1] * b[2] > b[1] * a[2]
AvgEq(a, b) == a[1] * b[2] = b[1] * a[2]
Num(n) == <<n, 1>>

NoFrame == [some |-> FALSE, rows |-> <<>>]
SomeFrame(f) == [some |-> TRUE, rows |-> f]

RECURSIVE SumSeq(_)
SumSeq(q) == IF q = <<>> THEN 0 ELSE Head(q) + SumSeq(Tail(q))

\* The rows of q that satisfy Keep, in order.
RECURSIVE SelectConf(_)
SelectConf(q) ==
    IF q = <<>> THEN <<>>
    ELSE IF Head(q) >= 0 THEN <<Head(q)>> \o SelectConf(Tail(q))
    ELSE SelectConf(Tail(q))

\* _compute_average_confidence: the mean of the conf values >= 0, 0.0 if none.
ComputeAverageConfidence(frame) ==
    LET valid == SelectConf(frame)
    IN IF valid = <<>> THEN Num(0) ELSE <<SumSeq(valid), Len(valid)>>

\* tuple(dict.fromkeys(configs)): first occurrences, in order.
RECURSIVE Dedup(_, _)
Dedup(q, seen) ==
    IF q = <<>> THEN <<>>
    ELSE IF Head(q) \in seen THEN Dedup(Tail(q), seen)
    ELSE <<Head(q)>> \o Dedup(Tail(q), seen \cup {Head(q)})

\* _build_tesseract_configs: one "--psm n" configuration per candidate
\* (_OCR_PSM_CANDIDATES or (6,)), deduplicated.
BuildTesseractConfigs(psms) == Dedup(IF psms = <<>> THEN <<6>> ELSE psms, {})

\* Variant: the break needs the best to exceed the threshold.
EarlyStopStrict(best) == AvgGT(best, Num(EarlyStopConfidence))

\* if best_average >= _EARLY_STOP_CONFIDENCE: break
EarlyStop(best) == AvgGE(best, Num(EarlyStopConfidence))

\* Variant: the baseline is accepted only above the threshold.
AcceptedStrict(average) == AvgGT(average, Num(AverageConfidenceThreshold))

\* if base_average >= _AVERAGE_CONFIDENCE_THRESHOLD: return best_result
Accepted(average) == AvgGE(average, Num(AverageConfidenceThreshold))

\* Variant: a later candidate with an equal average replaces the best.
ImprovesOrTies(average, best) == AvgGE(average, best)

\* if average > best_average
Improves(average, best) == AvgGT(average, best)

\* Variant: the preprocessed result is returned whenever that pass ran.
PreprocessedAlwaysWins(processed, base) == TRUE

\* Variant: a preprocessed result that ties with the baseline is returned.
PreprocessedWinsOnTie(processed, base) == AvgGE(processed, base)

\* if processed_average > best_result.average_confidence
PreprocessedWins(processed, base) == AvgGT(processed, base)

\* _run_ocr_with_best_config starts: best_frame = None, best_average = -1.0
StartPass(pass) ==
    /\ engPass' = pass
    /\ cfgIdx' = 1
    /\ bestFrame' = NoFrame
    /\ bestAverage' = Num(-1)
    /\ passCalls' = 0
    /\ epc' = IF Len(engConfigs) = 0 THEN "pass_done" ELSE "loop"

\* _perform_adaptive_ocr(image) is called: the baseline pass on the RGB image.
EngStart ==
    /\ epc = "called"
    /\ StartPass("base")
    /\ UNCHANGED <<docVars, engConfigs, baseCalls, baseFrame, baseAverage,
                   engResult>>

\* One iteration of the loop over _TESSERACT_CONFIGS: _image_to_data returns
\* frame; the best so far is kept; the loop breaks at the early-stop threshold.
Recognize(frame) ==
    /\ epc = "loop"
    /\ LET average == ComputeAverageConfidence(frame)
           better == Improves(average, bestAverage)
           best == IF better THEN average ELSE bestAverage
       IN /\ bestAverage' = best
          /\ bestFrame' = IF better THEN SomeFrame(frame) ELSE bestFrame
          /\ epc' = IF EarlyStop(best) \/ cfgIdx = Len(engConfigs)
                    THEN "pass_done" ELSE "loop"
    /\ passCalls' = passCalls + 1
    /\ cfgIdx' = cfgIdx + 1
    /\ UNCHANGED <<docVars, engConfigs, engPass, baseCalls, baseFrame,
                   baseAverage, engResult>>

\* Variant: best_average is returned as it is, also when no candidate ran.
PassAverageUnguarded == bestAverage

\* What _run_ocr_with_best_config returns: (pd.DataFrame(), 0.0) if best_frame is None.
PassFrame == IF bestFrame.some THEN bestFrame.rows ELSE <<>>
PassAverage == IF bestFrame.some THEN bestAverage ELSE Num(0)

\* The baseline pass returned: accept it, or run the pass on the preprocessed image.
BaseDone ==
    /\ epc = "pass_done"
    /\ engPass = "base"
    /\ baseFrame' = PassFrame
    /\ baseAverage' = PassAverage
    /\ baseCalls' = passCalls
    /\ IF Accepted(PassAverage)
       THEN /\ engResult' = [frame |-> PassFrame, average |-> PassAverage,
                             used_preprocessing |-> FALSE]
            /\ epc' = "returned"
            /\ UNCHANGED <<engPass, cfgIdx, bestFrame, bestAverage, passCalls>>
       ELSE /\ StartPass("pre")
            /\ engResult' = engResult
    /\ UNCHANGED <<docVars, engConfigs>>

\* The preprocessed pass returned: it wins only with a strictly higher average.
PreDone ==
    /\ epc = "pass_done"
    /\ engPass = "pre"
    /\ engResult' = IF PreprocessedWins(PassAverage, baseAverage)
                    THEN [frame |-> PassFrame, average |-> PassAverage,
                          used_preprocessing |-> TRUE]
                    ELSE [frame |-> baseFrame, average |-> baseAverage,
                          used_preprocessing |-> FALSE]
    /\ epc' = "returned"
    /\ UNCHANGED <<docVars, engConfigs, engPass, cfgIdx, bestFrame,
                   bestAverage, passCalls, baseCalls, baseFrame, baseAverage>>

EngineStep ==
    \/ EngStart
    \/ \E frame \in Frames : Recognize(frame)
    \/ BaseDone
    \/ PreDone

NoResult == [frame |-> <<>>, average |-> Num(0), used_preprocessing |-> FALSE]

\* No engine call is being followed (the worker's OCR is WorkerResult).
EngineIdle ==
    /\ engConfigs = <<>>
    /\ epc = "idle"
    /\ engPass = "base"
    /\ cfgIdx = 1
    /\ bestFrame = NoFrame
    /\ bestAverage = Num(-1)
    /\ passCalls = 0
    /\ baseCalls = 0
    /\ baseFrame = <<>>
    /\ baseAverage = Num(0)
    /\ engResult = NoResult

\* _perform_adaptive_ocr is called on one image; _TESSERACT_CONFIGS was built at
\* import from _OCR_PSM_CANDIDATES (or is empty, as the tests patch it).
EngineInit ==
    /\ engConfigs \in {BuildTesseractConfigs(psms) : psms \in PsmInputs} \cup {<<>>}
    /\ epc = "called"
    /\ engPass = "base"
    /\ cfgIdx = 1
    /\ bestFrame = NoFrame
    /\ bestAverage = Num(-1)
    /\ passCalls = 0
    /\ baseCalls = 0
    /\ baseFrame = <<>>
    /\ baseAverage = Num(0)
    /\ engResult = NoResult

\* No call of a pure function is being followed.
FunIdle ==
    /\ fnArg = <<>>
    /\ fnOut = <<>>
    /\ fnDone = FALSE

\* ------------------------------------------------------------------ environment
\* The call is still running.
Active ==
    IF entry \in DispatcherEntries
    THEN dpc \notin {"returned", "raised"}
    ELSE apc \notin {"done", "raised"}

\* Another thread sets the cancel event (nothing in the package clears it).
SetCancel ==
    /\ Active
    /\ ~cancelSet
    /\ cancelSet' = TRUE
    /\ UNCHANGED <<ctx, dispVars, asmVars>>

Docs == UNION {[1..n -> PageSet] : n \in 0..MaxPages}

\* Everything of the dispatcher and the assemblers but the call itself.
DocRest ==
    /\ dImages = <<>>
    /\ dWorker = "rows"
    /\ futures = <<>>
    /\ poolResults = <<>>
    /\ completedCount = 0
    /\ seqIdx = 1
    /\ seqResults = <<>>
    /\ dReturn = <<>>
    /\ dError = "none"
    /\ dProgress = <<>>
    /\ dOrder = <<>>
    /\ poolCreated = 0
    /\ poolError = "none"
    /\ fellBack = FALSE
    /\ cancelledFutures = {}
    /\ chunkStart = 0
    /\ pageIdx = 0
    /\ chunkImages = <<>>
    /\ ocrResults = <<>>
    /\ asmIdx = 1
    /\ completedPages = 0
    /\ outPages = <<>>
    /\ outSaved = FALSE
    /\ texts = <<>>
    /\ textReturn = <<>>
    /\ fileWritten = FALSE
    /\ aError = "none"
    /\ aDetail = "none"
    /\ aCause = "none"
    /\ aStage = "none"
    /\ prepareCalled = FALSE
    /\ messages = <<>>

\* An entry point is called on a document, in a process with its configuration.
Init ==
    /\ entry \in Entries
    /\ inputDoc \in Docs
    /\ maxWorkers \in 1..MaxWorkers
    /\ facts \in (IF entry \in AssemblerEntries THEN FactsOf(entry) ELSE {GoodFacts})
    /\ parallelEnabled \in BOOLEAN
    /\ cancelSet \in BOOLEAN
    /\ cancelPreset = cancelSet
    /\ dpc = IF entry \in DispatcherEntries THEN "called" ELSE "idle"
    /\ apc = IF entry \in AssemblerEntries THEN "called" ELSE "idle"
    /\ DocRest
    /\ EngineIdle
    /\ FunIdle

Next ==
    \/ DispatcherStep
    \/ AssemblerStep
    \/ SetCancel

Spec == Init /\ [][Next]_vars

\* The thread that called the dispatcher runs its statements, a free pool
\* process takes a pending task, and every task it took completes or fails.
SpecLive == Init /\ [][Next]_vars /\ WF_vars(DispatcherStep)

\* The adaptive engine on one image.
InitEngine ==
    /\ entry = "_perform_adaptive_ocr"
    /\ inputDoc = <<>>
    /\ maxWorkers = 1
    /\ facts = GoodFacts
    /\ parallelEnabled = FALSE
    /\ cancelSet = FALSE
    /\ cancelPreset = FALSE
    /\ dpc = "idle"
    /\ apc = "idle"
    /\ DocRest
    /\ EngineInit
    /\ FunIdle

NextEngine == EngineStep

SpecEngine == InitEngine /\ [][NextEngine]_vars

\* ------------------------------------------------------------------ _run_ocr_with_best_config
\* Bounds: candidate configurations of one pass, rows of a candidate's table.
MaxCandidates == 3
MaxPassRows == 1

\* The tables _image_to_data can return for a candidate, and what it returns
\* for each candidate of _TESSERACT_CONFIGS if that candidate is tried.
PassFrames == UNION {[1..n -> ConfSet] : n \in 0..MaxPassRows}
RecognitionLists == UNION {[1..n -> PassFrames] : n \in 0..MaxCandidates}

\* The for loop over _TESSERACT_CONFIGS from candidate i on.
RECURSIVE BestConfigLoop(_, _, _, _)
BestConfigLoop(frames, i, best_frame, best_average) ==
    IF i > Len(frames)
    THEN [best |-> best_frame, average |-> best_average, calls |-> i - 1]
    ELSE LET average == ComputeAverageConfidence(frames[i])
             better == Improves(average, best_average)
             nextAverage == IF better THEN average ELSE best_average
             nextFrame == IF better THEN SomeFrame(frames[i]) ELSE best_frame
         IN IF EarlyStop(nextAverage)
            THEN [best |-> nextFrame, average |-> nextAverage, calls |-> i]
            ELSE BestConfigLoop(frames, i + 1, nextFrame, nextAverage)

\* _run_ocr_with_best_config(image): (frame, average) and, for the record, the
\* number of _image_to_data calls made.
RunOcrWithBestConfig(frames) ==
    LET r == BestConfigLoop(frames, 1, NoFrame, Num(-1))
    IN IF ~r.best.some
       THEN [frame |-> <<>>, average |-> Num(0), calls |-> r.calls]
       ELSE [frame |-> r.best.rows, average |-> r.average, calls |-> r.calls]

ApplyRunOcrWithBestConfig ==
    /\ entry = "_run_ocr_with_best_config"
    /\ ~fnDone
    /\ fnOut' = RunOcrWithBestConfig(fnArg)
    /\ fnDone' = TRUE
    /\ UNCHANGED <<envVars, cancelSet, dispVars, asmVars, engVars, fnArg>>

\* One call of _run_ocr_with_best_config; the dispatcher, the assemblers and the
\* adaptive engine are not running.
InitBestConfig ==
    /\ entry = "_run_ocr_with_best_config"
    /\ inputDoc = <<>>
    /\ maxWorkers = 1
    /\ facts = GoodFacts
    /\ parallelEnabled = FALSE
    /\ cancelSet = FALSE
    /\ cancelPreset = FALSE
    /\ dpc = "idle"
    /\ apc = "idle"
    /\ DocRest
    /\ EngineIdle
    /\ fnArg \in RecognitionLists
    /\ fnOut = <<>>
    /\ fnDone = FALSE

NextBestConfig == ApplyRunOcrWithBestConfig

SpecBestConfig == InitBestConfig /\ [][NextBestConfig]_vars

\* ------------------------------------------------------------------ _sanitize_tesseract_config
\* Bound: characters of a raw configuration string.
MaxChars == 7

\* _SHELL_META_CHARS: [;&|`$(){}<>!\\\"'\n\r]
ShellMetaChars ==
    {";", "&", "|", "`", "$", "(", ")", "{", "}", "<", ">", "!", "\\", "\"", "'",
     "\n", "\r"}

\* _ALLOWED_TESSERACT_FLAGS
AllowedTesseractFlags ==
    { <<"-", "-", "o", "e", "m">>,
      <<"-", "-", "p", "s", "m">>,
      <<"-", "-", "d", "p", "i">>,
      <<"-", "l">>,
      <<"-", "-", "t", "e", "s", "s", "d", "a", "t", "a", "-", "d", "i", "r">> }

\* Variant: no token is searched for metacharacters.
ShellMetaNeverFound(token) == FALSE

\* _SHELL_META_CHARS.search(token)
HasShellMeta(token) == \E i \in DOMAIN token : token[i] \in ShellMetaChars

\* token.startswith("-")
StartsWithDash(token) == token # <<>> /\ token[1] = "-"

\* The while loop over tokens from position i on (1-based): what it appends
\* to sanitized.
RECURSIVE SanitizeFrom(_, _)
SanitizeFrom(tokens, i) ==
    IF i > Len(tokens) THEN <<>>
    ELSE LET token == tokens[i]
         IN IF HasShellMeta(token) THEN SanitizeFrom(tokens, i + 1)
            ELSE IF token \in AllowedTesseractFlags
            THEN IF i + 1 <= Len(tokens) /\ ~StartsWithDash(tokens[i + 1])
                 THEN (IF ~HasShellMeta(tokens[i + 1])
                       THEN <<token, tokens[i + 1]>> ELSE <<token>>)
                      \o SanitizeFrom(tokens, i + 2)
                 ELSE <<token>> \o SanitizeFrom(tokens, i + 1)
            ELSE SanitizeFrom(tokens, i + 1)

\* Variant: the surviving tokens are concatenated without a separator.
JoinTokensNoSpace(tokens) == Join(<<>>, tokens)

\* " ".join(sanitized)
JoinTokens(tokens) == Join(<<" ">>, tokens)

\* _sanitize_tesseract_config(raw)
SanitizeTesseractConfig(raw) ==
    IF raw = <<>> THEN <<>> ELSE JoinTokens(SanitizeFrom(Split(raw), 1))

\* Characters of the raw strings tried: whitespace, the dash, a letter (so that
\* "-l" is a whitelisted flag, "--" and "-ll" are not, "l" is a value) and a
\* metacharacter.
ConfigChars == {" ", "-", "l", ";"}
RawConfigs == UNION {[1..n -> ConfigChars] : n \in 0..MaxChars}

ApplySanitizeTesseractConfig ==
    /\ entry = "_sanitize_tesseract_config"
    /\ ~fnDone
    /\ fnOut' = SanitizeTesseractConfig(fnArg)
    /\ fnDone' = TRUE
    /\ UNCHANGED <<envVars, cancelSet, dispVars, asmVars, engVars, fnArg>>

\* One call of _sanitize_tesseract_config.
InitSanitize ==
    /\ entry = "_sanitize_tesseract_config"
    /\ inputDoc = <<>>
    /\ maxWorkers = 1
    /\ facts = GoodFacts
    /\ parallelEnabled = FALSE
    /\ cancelSet = FALSE
    /\ cancelPreset = FALSE
    /\ dpc = "idle"
    /\ apc = "idle"
    /\ DocRest
    /\ EngineIdle
    /\ fnArg \in RawConfigs
    /\ fnOut = <<>>
    /\ fnDone = FALSE

NextSanitize == ApplySanitizeTesseractConfig

SpecSanitize == InitSanitize /\ [][NextSanitize]_vars

\* ------------------------------------------------------------------ _reconstruct_text_from_frame
\* Bound: rows (boxes) of a word table.
MaxBoxes == 3

\* The text and conf cells of the boxes tried: two words (one at conf 0, one
\* padded with a space), a word at conf -1, a blank text, a word whose conf
\* does not convert, a word whose conf is NaN.
BoxCells ==
    { [text |-> <<"Hello">>, conf |-> <<"num", 0>>],
      [text |-> <<"World", " ">>, conf |-> <<"num", 90>>],
      [text |-> <<"Hello">>, conf |-> <<"num", -1>>],
      [text |-> <<" ">>, conf |-> <<"num", 90>>],
      [text |-> <<"World">>, conf |-> <<"str", 0>>],
      [text |-> <<"World">>, conf |-> <<"nan", 0>>] }

\* block_num, par_num, line_num of a box, as Tesseract numbers them.
BoxPlaces ==
    { [block_num |-> 1, par_num |-> 1, line_num |-> 1],
      [block_num |-> 1, par_num |-> 1, line_num |-> 2],
      [block_num |-> 1, par_num |-> 2, line_num |-> 1],
      [block_num |-> 2, par_num |-> 1, line_num |-> 1] }

Boxes ==
    { [text |-> c.text, conf |-> c.conf, block_num |-> q.block_num,
       par_num |-> q.par_num, line_num |-> q.line_num] :
         c \in BoxCells, q \in BoxPlaces }

WordTables == UNION {[1..n -> Boxes] : n \in 0..MaxBoxes}

ApplyReconstructTextFromFrame ==
    /\ entry = "_reconstruct_text_from_frame"
    /\ ~fnDone
    /\ fnOut' = ReconstructTextFromFrame(fnArg)
    /\ fnDone' = TRUE
    /\ UNCHANGED <<envVars, cancelSet, dispVars, asmVars, engVars, fnArg>>

\* One call of _reconstruct_text_from_frame.
InitReconstruct ==
    /\ entry = "_reconstruct_text_from_frame"
    /\ inputDoc = <<>>
    /\ maxWorkers = 1
    /\ facts = GoodFacts
    /\ parallelEnabled = FALSE
    /\ cancelSet = FALSE
    /\ cancelPreset = FALSE
    /\ dpc = "idle"
    /\ apc = "idle"
    /\ DocRest
    /\ EngineIdle
    /\ fnArg \in WordTables
    /\ fnOut = <<>>
    /\ fnDone = FALSE

NextReconstruct == ApplyReconstructTextFromFrame

SpecReconstruct == InitReconstruct /\ [][NextReconstruct]_vars

\* ------------------------------------------------------------------ _get_max_workers
\* Bounds: characters of KAIDOKU_OCR_WORKERS, and the largest os.cpu_count().
MaxEnvLen == 3
MaxCpu == 4

\* os.environ.get("KAIDOKU_OCR_WORKERS") is None
EnvUnset == <<"unset">>

Digits == {"0", "1", "2"}

DigitValue(c) == CASE c = "0" -> 0 [] c = "1" -> 1 [] c = "2" -> 2

\* The digits of a literal, its underscores dropped.
RECURSIVE DigitsOnly(_)
DigitsOnly(body) ==
    IF body = <<>> THEN <<>>
    ELSE IF Head(body) = "_" THEN DigitsOnly(Tail(body))
    ELSE <<Head(body)>> \o DigitsOnly(Tail(body))

RECURSIVE DecimalValue(_)
DecimalValue(digits) ==
    IF digits = <<>> THEN 0
    ELSE 10 * DecimalValue(SubSeq(digits, 1, Len(digits) - 1))
             + DigitValue(digits[Len(digits)])

\* The digit part int() accepts: digits, single underscores only between them.
IsDigitPart(body) ==
    /\ body # <<>>
    /\ \A i \in 1..Len(body) : body[i] \in Digits \cup {"_"}
    /\ body[1] # "_"
    /\ body[Len(body)] # "_"
    /\ \A i \in 1..(Len(body) - 1) : ~(body[i] = "_" /\ body[i + 1] = "_")

\* int(env_value): surrounding whitespace is ignored, one sign may lead the
\* digit part; anything else raises ValueError.
IntOf(text) ==
    LET stripped == Strip(text)
        signed == stripped # <<>> /\ stripped[1] \in {"+", "-"}
        body == IF signed THEN Tail(stripped) ELSE stripped
        magnitude == DecimalValue(DigitsOnly(body))
    IN  IF IsDigitPart(body)
        THEN [ok |-> TRUE,
              n |-> IF signed /\ stripped[1] = "-" THEN 0 - magnitude ELSE magnitude]
        ELSE [ok |-> FALSE, n |-> 0]

\* Variant: the override is returned as it was parsed.
OverrideAsParsed(n) == n

\* return max(1, n)
OverrideWorkers(n) == IF n > 1 THEN n ELSE 1

\* cpu_count = os.cpu_count() or 2; return max(1, cpu_count // 2)
\* (os.cpu_count() returning None is cpu = 0: both are falsy)
DefaultWorkers(cpu) ==
    LET cpu_count == IF cpu = 0 THEN 2 ELSE cpu
    IN  IF cpu_count \div 2 > 1 THEN cpu_count \div 2 ELSE 1

\* _get_max_workers()
GetMaxWorkers(env_value, cpu) ==
    IF env_value # EnvUnset /\ IntOf(env_value).ok
    THEN OverrideWorkers(IntOf(env_value).n)
    ELSE DefaultWorkers(cpu)

\* Characters of the values tried: whitespace, signs, digits, the underscore
\* and a letter.
EnvChars == {" ", "-", "+", "0", "1", "2", "_", "a"}
EnvValues == {EnvUnset} \cup UNION {[1..n -> EnvChars] : n \in 0..MaxEnvLen}

ApplyGetMaxWorkers ==
    /\ entry = "_get_max_workers"
    /\ ~fnDone
    /\ fnOut' = GetMaxWorkers(fnArg.env, fnArg.cpu)
    /\ fnDone' = TRUE
    /\ UNCHANGED <<envVars, cancelSet, dispVars, asmVars, engVars, fnArg>>

\* One call of _get_max_workers in a process with its environment.
InitMaxWorkers ==
    /\ entry = "_get_max_workers"
    /\ inputDoc = <<>>
    /\ maxWorkers = 1
    /\ facts = GoodFacts
    /\ parallelEnabled = FALSE
    /\ cancelSet = FALSE
    /\ cancelPreset = FALSE
    /\ dpc = "idle"
    /\ apc = "idle"
    /\ DocRest
    /\ EngineIdle
    /\ fnArg \in [env : EnvValues, cpu : 0..MaxCpu]
    /\ fnOut = 0
    /\ fnDone = FALSE

NextMaxWorkers == ApplyGetMaxWorkers

SpecMaxWorkers == InitMaxWorkers /\ [][NextMaxWorkers]_vars

\* ------------------------------------------------------------------ the overlay of one page
\* Bound: rows of the frame an OCR result carries.
MaxOverlayRows == 3

OverlayBox(text, conf, left, top, height, glyph) ==
    [text |-> text, conf |-> conf, left |-> left, top |-> top, height |-> height,
     glyph |-> glyph]

\* Rows tried: confidences below, at and above the threshold, NaN and
\* non-numeric; text that is empty once trimmed or missing; coordinates that
\* are NaN or not numbers; a word whose insertion raises RuntimeError.
OverlayRows ==
    { OverlayBox(<<"Hello">>, <<"num", 90>>, <<"num", 10>>, <<"num", 20>>, <<"num", 10>>, "ok"),
      OverlayBox(<<" ", "World">>, <<"num", 50>>, <<"num", 30>>, <<"num", 20>>, <<"num", 10>>, "ok"),
      OverlayBox(<<"Hello">>, <<"num", 49>>, <<"num", 10>>, <<"num", 40>>, <<"num", 10>>, "ok"),
      OverlayBox(<<"World">>, <<"nan", 0>>, <<"num", 30>>, <<"num", 40>>, <<"num", 10>>, "ok"),
      OverlayBox(<<"Hello">>, <<"str", 0>>, <<"num", 10>>, <<"num", 60>>, <<"num", 10>>, "ok"),
      OverlayBox(<<" ">>, <<"num", 90>>, <<"num", 30>>, <<"num", 60>>, <<"num", 10>>, "ok"),
      OverlayBox(TextMissing, <<"num", 90>>, <<"num", 10>>, <<"num", 80>>, <<"num", 10>>, "ok"),
      OverlayBox(<<"World">>, <<"num", 90>>, <<"num", 30>>, <<"num", 80>>, <<"nan", 0>>, "ok"),
      OverlayBox(<<"Hello">>, <<"num", 90>>, <<"str", 0>>, <<"num", 90>>, <<"num", 10>>, "ok"),
      OverlayBox(<<"World">>, <<"num", 90>>, <<"num", 30>>, <<"num", 90>>, <<"num", 10>>, "bad") }

OverlayFrames ==
    [has_conf : BOOLEAN,
     rows : UNION {[1..n -> OverlayRows] : n \in 0..MaxOverlayRows},
     caller : PdfEntries]

\* _ocr_worker filters the frame; Phase C of the caller inserts the rows' text.
ApplyPageOverlay ==
    /\ entry = "page_overlay"
    /\ ~fnDone
    /\ LET filtered == FilterFrameByConfidence(fnArg, TextRenderConfidenceThreshold)
       IN  fnOut' = [filtered |-> filtered,
                     inserted |-> PageOverlay(filtered, CoordinateScale(fnArg.caller))]
    /\ fnDone' = TRUE
    /\ UNCHANGED <<envVars, cancelSet, dispVars, asmVars, engVars, fnArg>>

\* The overlay of one page is made from one frame.
InitOverlay ==
    /\ entry = "page_overlay"
    /\ inputDoc = <<>>
    /\ maxWorkers = 1
    /\ facts = GoodFacts
    /\ parallelEnabled = FALSE
    /\ cancelSet = FALSE
    /\ cancelPreset = FALSE
    /\ dpc = "idle"
    /\ apc = "idle"
    /\ DocRest
    /\ EngineIdle
    /\ fnArg \in OverlayFrames
    /\ fnOut = <<>>
    /\ fnDone = FALSE

NextOverlay == ApplyPageOverlay

SpecOverlay == InitOverlay /\ [][NextOverlay]_vars

\* ------------------------------------------------------------------ remove_pdf_password
\* Bound: characters of a password.
MaxPasswordLen == 1

PasswordChars == {"a", "b"}
Passwords == UNION {[1..n -> PasswordChars] : n \in 0..MaxPasswordLen}

\* What one call finds: the input file, the two resolved paths, what fitz.open
\* and the document say, the password given, the output's parent directory and
\* how doc.save ends.
PasswordCalls ==
    [exists : BOOLEAN, same_path : BOOLEAN, opens : BOOLEAN, is_encrypted : BOOLEAN,
     user_password : Passwords \ {<<>>}, password : Passwords,
     parent_exists : BOOLEAN, save : {"ok", "RuntimeError", "PermissionError"}]

\* doc.authenticate(password)
Authenticate(c) == c.password = c.user_password

\* Variant: the output directory is made ready before the document is examined.
PasswordChecksAfterMkdir == <<"exists", "distinct", "mkdir", "opens", "is_encrypted",
                              "password", "authenticate">>

\* The statements before doc.save, in the order the code runs them.
PasswordChecks == <<"exists", "distinct", "opens", "is_encrypted", "password",
                    "authenticate", "mkdir">>

PasswordCheckPasses(check, c) ==
    CASE check = "exists" -> c.exists
      [] check = "distinct" -> ~c.same_path
      [] check = "opens" -> c.opens
      [] check = "is_encrypted" -> c.is_encrypted
      [] check = "password" -> c.password # <<>>
      [] check = "authenticate" -> Authenticate(c)
      [] check = "mkdir" -> TRUE

PasswordCheckError(check) ==
    CASE check = "exists" -> [type |-> "FileNotFoundError", detail |-> "input"]
      [] check = "distinct" -> [type |-> "ValueError", detail |-> "same_path"]
      [] check = "opens" -> [type |-> "FileDataError", detail |-> "open"]
      [] check = "is_encrypted" ->
            [type |-> "PDFPasswordRemovalError", detail |-> "not_encrypted"]
      [] check = "password" ->
            [type |-> "PDFPasswordRemovalError", detail |-> "empty_password"]
      [] check = "authenticate" ->
            [type |-> "PDFPasswordRemovalError", detail |-> "wrong_password"]

\* except RuntimeError as exc: raise PDFPasswordRemovalError(...) from exc
PasswordSaveHandler(exc) ==
    IF IsSubclass(exc, "RuntimeError")
    THEN [type |-> "PDFPasswordRemovalError", detail |-> "save"]
    ELSE [type |-> exc, detail |-> "save"]

\* The statements of remove_pdf_password from position i on; mkdir tells whether
\* output_path.parent.mkdir(...) ran.
RECURSIVE PasswordRun(_, _, _, _)
PasswordRun(checks, i, c, mkdir) ==
    IF i > Len(checks)
    THEN IF c.save = "ok"
         THEN [error |-> "none", detail |-> "none", mkdir |-> mkdir,
               save_called |-> TRUE, written |-> TRUE]
         ELSE [error |-> PasswordSaveHandler(c.save).type,
               detail |-> PasswordSaveHandler(c.save).detail, mkdir |-> mkdir,
               save_called |-> TRUE, written |-> FALSE]
    ELSE IF ~PasswordCheckPasses(checks[i], c)
    THEN [error |-> PasswordCheckError(checks[i]).type,
          detail |-> PasswordCheckError(checks[i]).detail, mkdir |-> mkdir,
          save_called |-> FALSE, written |-> FALSE]
    ELSE PasswordRun(checks, i + 1, c,
                     IF checks[i] = "mkdir" THEN ~c.parent_exists ELSE mkdir)

\* remove_pdf_password(input_path, output_path, password)
RemovePdfPassword(c) == PasswordRun(PasswordChecks, 1, c, FALSE)

ApplyRemovePdfPassword ==
    /\ entry = "remove_pdf_password"
    /\ ~fnDone
    /\ fnOut' = RemovePdfPassword(fnArg)
    /\ fnDone' = TRUE
    /\ UNCHANGED <<envVars, cancelSet, dispVars, asmVars, engVars, fnArg>>

\* One call of remove_pdf_password.
InitPassword ==
    /\ entry = "remove_pdf_password"
    /\ inputDoc = <<>>
    /\ maxWorkers = 1
    /\ facts = GoodFacts
    /\ parallelEnabled = FALSE
    /\ cancelSet = FALSE
    /\ cancelPreset = FALSE
    /\ dpc = "idle"
    /\ apc = "idle"
    /\ DocRest
    /\ EngineIdle
    /\ fnArg \in PasswordCalls
    /\ fnOut = <<>>
    /\ fnDone = FALSE

NextPassword == ApplyRemovePdfPassword

SpecPassword == InitPassword /\ [][NextPassword]_vars

\* ================================================================== claims
InPlaceIndices(n) == [k \in 1..n |-> k]

\* C1: a list of N >= 2 images that went through the process pool comes back
\* with length N and element i the worker's result for images[i], whatever the
\* order in which the futures completed.
C1_PoolKeepsInputOrder ==
    (dpc = "returned" /\ futures # <<>>) =>
        /\ Len(dImages) >= 2
        /\ Len(dReturn) = Len(dImages)
        /\ \A i \in 1..Len(dImages) :
              dReturn[i] = WorkerResult(dWorker, dImages[i], "pool")

\* C1 witness: three images, collected last-first-second, two of them different.
C1_Witness ==
    /\ dpc = "returned"
    /\ futures # <<>>
    /\ dOrder = <<3, 1, 2>>
    /\ dImages[1] # dImages[3]

\* C2: in create_searchable_pdf and create_searchable_pdf_from_images, once the
\* cancel event is set at a moment up to and including the final pre-save
\* check, the save is never reached; the document is saved only from there.
C2_Step ==
    entry \in PdfEntries =>
        /\ (cancelSet /\ apc # "save") => apc' # "save"
        /\ outSaved' => (outSaved \/ apc = "save")

C2_NoSaveAfterCancel == [][C2_Step]_vars

\* C2 witness: the event was set during the run, after a page was assembled,
\* and the call ended cancelled without a save.
C2_Witness ==
    /\ entry \in PdfEntries
    /\ ~cancelPreset
    /\ apc = "raised"
    /\ aError = "OCRCancelledError"
    /\ Len(outPages) >= 1
    /\ ~outSaved

\* C3: every entry point called with the cancel event already set (the engine,
\* the input and the output path being in order) ends with OCRCancelledError
\* and writes nothing, zero-page inputs included.
C3_PresetCancelRaises ==
    (entry \in AssemblerEntries /\ cancelPreset /\ facts = GoodFacts
        /\ apc \in {"done", "raised"}) =>
        /\ apc = "raised"
        /\ aError = "OCRCancelledError"
        /\ ~outSaved
        /\ ~fileWritten

\* C4: an OCRCancelledError raised while the pool's results are collected is
\* not caught by the pool-failure handler: the sequential fallback is not entered.
C4_CancelSkipsPoolHandler ==
    poolError = "OCRCancelledError" => ~fellBack

\* C5: in pool mode, with the cancel event set when a completed future is taken,
\* the pending futures are cancelled, no further result is recorded, no further
\* progress is reported and the call ends with OCRCancelledError; a returned
\* list is never partial.
C5_State ==
    /\ poolError = "OCRCancelledError" =>
          /\ seqResults = <<>>
          /\ Len(dProgress) = completedCount
          /\ dpc \in {"seq_check", "raised"}
          /\ dpc = "raised" => dError = "OCRCancelledError"
    /\ dpc = "returned" => Len(dReturn) = Len(dImages)

C5_Step ==
    (dpc = "pool_collect" /\ cancelSet) =>
        /\ completedCount' = completedCount
        /\ dProgress' = dProgress
        /\ dpc' \notin {"pool_collect", "returned"} =>
              /\ poolError' = "OCRCancelledError"
              /\ cancelledFutures' = {k \in DOMAIN futures : futures[k] = "pending"}

C5_PoolCancel == []C5_State /\ [][C5_Step]_vars

\* C5 witness: one result collected, then the event found set with a task still
\* pending; the call ended with OCRCancelledError.
C5_Witness ==
    /\ poolError = "OCRCancelledError"
    /\ completedCount >= 1
    /\ cancelledFutures # {}
    /\ dpc = "raised"
    /\ dError = "OCRCancelledError"

\* C6: in extract_text_to_file, with the cancel event set before the pre-write
\* check, write_text is never reached and the check (reached once the output
\* path is prepared) raises OCRCancelledError, also when the text had been
\* produced in full.
C6_Step ==
    entry = "extract_text_to_file" =>
        /\ (cancelSet /\ apc # "write") => apc' # "write"
        /\ fileWritten' => (fileWritten \/ apc = "write")
        /\ (apc = "prewrite" /\ cancelSet /\ facts.prepare /\ apc' # apc) =>
              (apc' = "raised" /\ aError' = "OCRCancelledError")

C6_NoWriteAfterCancel == [][C6_Step]_vars

\* C6 witness: the text of a document with pages was returned, the event was
\* set after that, and the call ended cancelled with no file written.
C6_Witness ==
    /\ entry = "extract_text_to_file"
    /\ ~cancelPreset
    /\ Len(textReturn) >= 1
    /\ apc = "raised"
    /\ aError = "OCRCancelledError"
    /\ ~fileWritten

\* C7: after a pool failure the handler catches, the worker is re-run in
\* process on all N images and every returned element is that pass's result.
C7_FallbackRedoesBatch ==
    (fellBack /\ dpc = "returned") =>
        /\ Len(seqResults) = Len(dImages)
        /\ Len(dReturn) = Len(dImages)
        /\ \A i \in 1..Len(dImages) :
              dReturn[i] = WorkerResult(dWorker, dImages[i], "seq")

\* C7 witness: the pool broke after a result had been collected from it.
C7_Witness ==
    /\ fellBack
    /\ poolError = "BrokenProcessPool"
    /\ completedCount >= 1
    /\ dpc = "returned"

PoolLevelFailures == {"OSError", "BrokenProcessPool"}

\* C8: a pool/process-level failure is never what the caller sees: the
\* sequential pass runs, and an error reaches the caller only from that pass,
\* which then did not complete.
C8_State ==
    poolError \in PoolLevelFailures =>
        /\ fellBack
        /\ dError \notin PoolLevelFailures
        /\ dpc = "raised" => Len(seqResults) < Len(dImages)

C8_Step ==
    (poolError \in PoolLevelFailures /\ dError' # dError) =>
        dpc \in {"seq_check", "seq_work"}

C8_PoolFailureNotSurfaced == []C8_State /\ [][C8_Step]_vars

\* C8 witness: the pool broke and the caller got the sequential pass's list.
C8_Witness ==
    /\ poolError \in PoolLevelFailures
    /\ dpc = "returned"
    /\ Len(dReturn) = Len(dImages)

\* The dispatch is one the code runs without a pool.
NoPoolCase == Len(dImages) >= 1 /\ (~parallelEnabled \/ Len(dImages) = 1)

\* C9: with parallelism disabled or a single image no pool is created, the
\* images are handled in input order in process, a worker starts only after a
\* cancellation check that found the event unset (a set event raises
\* OCRCancelledError), and only after the previous image's progress report.
C9_State ==
    (NoPoolCase /\ dpc \notin {"called", "idle"}) =>
        /\ futures = <<>>
        /\ poolError = "none"
        /\ ~fellBack
        /\ dpc \in {"seq_check", "seq_work", "seq_progress", "returned", "raised"}
        /\ dOrder = InPlaceIndices(Len(dOrder))
        /\ \A k \in 1..Len(dProgress) : dProgress[k] = <<k, Len(dImages)>>
        /\ dpc = "seq_work" =>
              (Len(dProgress) = seqIdx - 1 /\ Len(dOrder) = seqIdx - 1)

C9_Step ==
    /\ (Len(dImages') >= 1 /\ (~parallelEnabled \/ Len(dImages') = 1)) =>
          poolCreated' = poolCreated
    /\ (dpc' = "seq_work" /\ dpc # "seq_work") =>
          (dpc = "seq_check" /\ ~cancelSet)
    /\ (dpc = "seq_check" /\ cancelSet /\ dpc' # dpc) =>
          (dpc' = "raised" /\ dError' = "OCRCancelledError")

C9_SequentialPath == []C9_State /\ [][C9_Step]_vars

\* C9 witness: parallelism disabled, three images done in process.
C9_Witness ==
    /\ ~parallelEnabled
    /\ Len(dImages) = 3
    /\ dpc = "returned"
    /\ Len(dProgress) = 3
    /\ poolCreated = 0

\* C10: within one candidate pass no recognition is made once the running best
\* average is at or above 90.0; a first candidate that reaches it ends the pass
\* after exactly one recognition.
C10_Step ==
    /\ (AvgGE(bestAverage, Num(90)) /\ engPass' = engPass) =>
          passCalls' = passCalls
    /\ (epc = "loop" /\ passCalls = 0 /\ AvgGE(bestAverage', Num(90))) =>
          (epc' = "pass_done" /\ passCalls' = 1)

C10_EarlyStop == [][C10_Step]_vars

\* C10 witness: three candidates configured, the first one averaged exactly
\* 90 and the pass ended after that one recognition.
C10_Witness ==
    /\ Len(engConfigs) = 3
    /\ epc = "pass_done"
    /\ passCalls = 1
    /\ AvgEq(bestAverage, Num(90))

\* C11: the preprocessed pass of _perform_adaptive_ocr is started exactly when
\* the baseline pass returned an average below the acceptance threshold 65, and
\* it is started once; a baseline at or above 65 ends the call right there with
\* used_preprocessing = FALSE.
C11_Step ==
    /\ (engPass' # engPass) =>
          /\ engPass = "base" /\ engPass' = "pre"
          /\ epc = "pass_done"
          /\ ~AvgGE(PassAverage, Num(65))
    /\ (epc = "pass_done" /\ engPass = "base" /\ vars' # vars) =>
          IF AvgGE(PassAverage, Num(65))
          THEN /\ epc' = "returned"
               /\ engPass' = "base"
               /\ passCalls' = passCalls
               /\ engResult'.used_preprocessing = FALSE
          ELSE /\ engPass' = "pre"
               /\ passCalls' = 0
               /\ epc' # "returned"

C11_PreprocessingTrigger == [][C11_Step]_vars

\* C11 witness: the baseline's best average was exactly 65 and the call
\* returned without a second pass.
C11_Witness ==
    /\ epc = "returned"
    /\ engPass = "base"
    /\ baseCalls >= 1
    /\ AvgEq(baseAverage, Num(65))
    /\ engResult.used_preprocessing = FALSE

\* C12: after a preprocessed pass the call returns the preprocessed frame and
\* average with used_preprocessing = TRUE exactly when the preprocessed average
\* is strictly greater than the baseline's; otherwise it returns the baseline
\* frame and average with used_preprocessing = FALSE.
C12_PreprocessedOnlyIfBetter ==
    (epc = "returned" /\ engPass = "pre") =>
        IF PassAverage[1] * baseAverage[2] > baseAverage[1] * PassAverage[2]
        THEN engResult = [frame |-> PassFrame, average |-> PassAverage,
                          used_preprocessing |-> TRUE]
        ELSE engResult = [frame |-> baseFrame, average |-> baseAverage,
                          used_preprocessing |-> FALSE]

\* C12 witness: the preprocessed pass tied with the baseline on a different
\* table, and the baseline was returned.
C12_Witness ==
    /\ epc = "returned"
    /\ engPass = "pre"
    /\ passCalls >= 1
    /\ AvgEq(PassAverage, baseAverage)
    /\ PassFrame # baseFrame
    /\ engResult.frame = baseFrame
    /\ engResult.used_preprocessing = FALSE

\* The mean of the conf values >= 0 of a table, as <<sum, count>>; <<0, 1>> if none.
RECURSIVE C14_Sum(_, _)
C14_Sum(f, S) ==
    IF S = {} THEN 0
    ELSE LET i == CHOOSE j \in S : TRUE IN f[i] + C14_Sum(f, S \ {i})

C14_Mean(f) ==
    LET usable == {i \in DOMAIN f : f[i] >= 0}
    IN IF usable = {} THEN <<0, 1>> ELSE <<C14_Sum(f, usable), Cardinality(usable)>>

C13_Invoked(frames) ==
    LET stops == {i \in DOMAIN frames : AvgGE(C14_Mean(frames[i]), <<90, 1>>)}
    IN IF stops = {} THEN Len(frames)
       ELSE CHOOSE i \in stops : \A k \in stops : i <= k

\* C13: _run_ocr_with_best_config invokes the candidates in order, and returns
\* the table and average of the earliest invoked candidate whose average is
\* maximal among the invoked ones; with no candidate it returns an empty table
\* and 0.0.
C13_BestOfInvoked ==
    (entry = "_run_ocr_with_best_config" /\ fnDone) =>
        LET n == C13_Invoked(fnArg)
            avg(i) == C14_Mean(fnArg[i])
        IN /\ fnOut.calls = n
           /\ IF fnArg = <<>>
              THEN fnOut.frame = <<>> /\ fnOut.average = <<0, 1>>
              ELSE \E j \in 1..n :
                      /\ \A k \in 1..n : AvgGE(avg(j), avg(k))
                      /\ \A k \in 1..(j - 1) : AvgGT(avg(j), avg(k))
                      /\ fnOut.frame = fnArg[j]
                      /\ AvgEq(fnOut.average, avg(j))

\* C13 witness: three candidates were invoked, the first and the third tie for
\* the best average on different tables, and the first one's table is returned.
C13_Witness ==
    /\ entry = "_run_ocr_with_best_config"
    /\ fnDone
    /\ fnArg = << <<>>, <<-1>>, <<-1>> >>
    /\ fnOut.calls = 3
    /\ fnOut.frame = <<>>

\* C15: the string _sanitize_tesseract_config returns contains no shell
\* metacharacter; each of its tokens that starts with "-" is a whitelisted flag;
\* each other token comes right after a whitelisted flag.
C15_SanitizedIsSafe ==
    (entry = "_sanitize_tesseract_config" /\ fnDone) =>
        LET tokens == Split(fnOut)
        IN /\ \A i \in DOMAIN fnOut : fnOut[i] \notin ShellMetaChars
           /\ \A k \in DOMAIN tokens :
                 IF tokens[k][1] = "-"
                 THEN tokens[k] \in AllowedTesseractFlags
                 ELSE k > 1 /\ tokens[k - 1] \in AllowedTesseractFlags

\* C15 witness: "-l ; l" loses the value that holds a metacharacter and the
\* token after it, and keeps the flag.
C15_Witness ==
    /\ entry = "_sanitize_tesseract_config"
    /\ fnDone
    /\ fnArg = <<"-", "l", " ", ";", " ", "l">>
    /\ fnOut = <<"-", "l">>

\* C16: sanitizing the returned string again returns it unchanged.
C16_SanitizeIdempotent ==
    (entry = "_sanitize_tesseract_config" /\ fnDone) =>
        SanitizeTesseractConfig(fnOut) = fnOut

\* C16 witness: "-l ; -l" drops the value with the metacharacter, the two flags
\* become neighbours, and the result "-l -l" sanitizes to itself.
C16_Witness ==
    /\ entry = "_sanitize_tesseract_config"
    /\ fnDone
    /\ fnArg = <<"-", "l", " ", ";", " ", "-", "l">>
    /\ fnOut = <<"-", "l", " ", "-", "l">>
    /\ SanitizeTesseractConfig(fnOut) = fnOut

\* A box the function keeps: its conf converts to a number that is not below
\* 0 and its trimmed text is not empty.
C17_Kept(row) ==
    /\ row.conf[1] # "str"
    /\ ~(row.conf[1] = "num" /\ row.conf[2] < 0)
    /\ Strip(row.text) # <<>>

\* What stands between the words of two consecutive kept boxes.
C17_Separator(a, b) ==
    IF a.block_num # b.block_num \/ a.par_num # b.par_num THEN <<"\n", "\n">>
    ELSE IF a.line_num # b.line_num THEN <<"\n">>
    ELSE <<" ">>

RECURSIVE C17_Expected(_)
C17_Expected(kept) ==
    IF kept = <<>> THEN <<>>
    ELSE IF Len(kept) = 1 THEN Strip(kept[1].text)
    ELSE Strip(kept[1].text) \o C17_Separator(kept[1], kept[2])
             \o C17_Expected(Tail(kept))

\* C17: the text _reconstruct_text_from_frame returns is the words of the kept
\* boxes in table order, two consecutive ones separated by one blank line when
\* block or paragraph changes, by one newline when only the line changes, and
\* by one space otherwise.
C17_BreaksBetweenKeptBoxes ==
    (entry = "_reconstruct_text_from_frame" /\ fnDone) =>
        fnOut = C17_Expected(SelectSeq(fnArg, C17_Kept))

\* C17 witness: "Hello" and "World" on one line, then "Hello" in the next
\* paragraph: "Hello World", a blank line, "Hello".
C17_Witness ==
    /\ entry = "_reconstruct_text_from_frame"
    /\ fnDone
    /\ Len(fnArg) = 3
    /\ \A i \in 1..3 : C17_Kept(fnArg[i])
    /\ fnOut = <<"Hello", " ", "World", "\n", "\n", "Hello">>

\* C18: a box with conf below 0, with a conf that is no number, or with empty
\* trimmed text adds no word and leaves the break detection as it was: the
\* returned text is the text returned for the table without those boxes, and its
\* words are the trimmed texts of the other boxes, in order.
C18_SkippedBoxesLeaveNoTrace ==
    (entry = "_reconstruct_text_from_frame" /\ fnDone) =>
        LET kept == SelectSeq(fnArg, C17_Kept)
        IN /\ fnOut = ReconstructTextFromFrame(kept)
           /\ Split(fnOut) = [k \in 1..Len(kept) |-> Strip(kept[k].text)]

\* C18 witness: a skipped box of another block stands between two kept boxes of
\* one line, and the two words are still joined by a space.
C18_Witness ==
    /\ entry = "_reconstruct_text_from_frame"
    /\ fnDone
    /\ Len(fnArg) = 3
    /\ C17_Kept(fnArg[1]) /\ ~C17_Kept(fnArg[2]) /\ C17_Kept(fnArg[3])
    /\ fnArg[2].block_num # fnArg[1].block_num
    /\ fnArg[3].block_num = fnArg[1].block_num
    /\ fnOut = <<"Hello", " ", "World">>

\* What output page k of create_searchable_pdf is to be built from.
C19_PageOf(k) ==
    [image |-> 100 + inputDoc[k],
     ocr |-> [src |-> 100 + inputDoc[k], kind |-> "rows"]]

C19_Built(page) ==
    [image |-> page.image, ocr |-> [src |-> page.ocr.src, kind |-> page.ocr.kind]]

C19_State ==
    entry = "create_searchable_pdf" =>
        /\ Len(outPages) <= Len(inputDoc)
        /\ \A k \in 1..Len(outPages) : C19_Built(outPages[k]) = C19_PageOf(k)
        /\ \A j \in 1..Len(chunkImages) : chunkImages[j] = 100 + inputDoc[chunkStart + j]
        /\ apc = "done" => Len(outPages) = Len(inputDoc)

C19_Step ==
    entry = "create_searchable_pdf" =>
        /\ chunkStart' >= chunkStart
        /\ chunkStart' # chunkStart => Len(outPages') = Len(inputDoc) \/
                                       Len(outPages') = chunkStart'
        /\ Len(outPages') >= Len(outPages)
        /\ SubSeq(outPages', 1, Len(outPages)) = outPages

\* C19: create_searchable_pdf adds output pages only at the end, chunk after
\* chunk in increasing page ranges; output page k holds the rasterized image of
\* input page k and the OCR result of that image, and a saved document has as
\* many pages as the input.
C19_PagesInInputOrder == []C19_State /\ [][C19_Step]_vars

\* C19 witness: a three-page document with different pages was assembled in two
\* chunks of two and one pages by a pool, and saved.
C19_Witness ==
    /\ entry = "create_searchable_pdf"
    /\ apc = "done"
    /\ outSaved
    /\ inputDoc = <<1, 2, 1>>
    /\ maxWorkers = 2
    /\ Len(outPages) = 3
    /\ outPages[1].ocr.by = "pool"

\* The lines of a text: the pieces between its newlines.
RECURSIVE C20_Lines(_, _)
C20_Lines(str, cur) ==
    IF str = <<>> THEN <<cur>>
    ELSE IF Head(str) = "\n" THEN <<cur>> \o C20_Lines(Tail(str), <<>>)
    ELSE C20_Lines(Tail(str), Append(cur, Head(str)))

C20_IsHeader(line) ==
    /\ Len(line) >= 10
    /\ SubSeq(line, 1, 6) = <<"-", "-", "-", " ", "ページ", " ">>
    /\ SubSeq(line, Len(line) - 3, Len(line)) = <<" ", "-", "-", "-">>

C20_HeaderOf(n) ==
    <<"-", "-", "-", " ", "ページ", " ">>
        \o (CASE n = 1 -> <<"1">> [] n = 2 -> <<"2">> [] n = 3 -> <<"3">>
              [] n = 4 -> <<"4">> [] OTHER -> <<"?">>)
        \o <<" ", "-", "-", "-">>

\* The text of the page an image shows.
C20_TextOfPage(content) ==
    IF content = 1 THEN <<"Hello", "\n", "\n", "World">> ELSE <<>>

\* C20: for N >= 1 pages the text extract_text_from_image_pdf returns has
\* exactly N header lines, the k-th one numbered k and followed, up to the next
\* header, by the text of page k; it ends with one newline after a character
\* that is no whitespace.
C20_HeadersAndTrailingNewline ==
    (entry = "extract_text_from_image_pdf" /\ apc = "done" /\ Len(inputDoc) >= 1) =>
        LET lines == C20_Lines(textReturn, <<>>)
            heads == {i \in DOMAIN lines : C20_IsHeader(lines[i])}
            rank(i) == Cardinality({j \in heads : j <= i})
            last(i) == IF \E j \in heads : j > i
                       THEN (CHOOSE j \in heads :
                                j > i /\ \A m \in heads : m > i => j <= m) - 1
                       ELSE Len(lines)
        IN /\ Cardinality(heads) = Len(inputDoc)
           /\ \A i \in heads :
                 /\ lines[i] = C20_HeaderOf(rank(i))
                 /\ Strip(Join(<<"\n">>, SubSeq(lines, i + 1, last(i))))
                        = C20_TextOfPage(inputDoc[rank(i)])
           /\ Len(textReturn) >= 2
           /\ textReturn[Len(textReturn)] = "\n"
           /\ textReturn[Len(textReturn) - 1] \notin {" ", "\n", "\r", "\t"}

\* C20 witness: three pages in two chunks, the last page blank: three headers,
\* and the text ends with the third header and one newline.
C20_Witness ==
    /\ entry = "extract_text_from_image_pdf"
    /\ apc = "done"
    /\ inputDoc = <<1, 1, 2>>
    /\ maxWorkers = 2
    /\ SubSeq(textReturn, Len(textReturn) - 5, Len(textReturn))
           = <<"3", " ", "-", "-", "-">> \o <<"\n">>

\* C29: run_parallel_ocr / run_parallel_ocr_with_text on an empty list returns
\* an empty list, whether or not the cancel event is set, and creates no pool,
\* submits and runs no worker and reports no progress.
C29_EmptyListNoDispatch ==
    (entry \in DispatcherEntries /\ inputDoc = <<>>) =>
        /\ dpc \in {"called", "returned"}
        /\ dError = "none"
        /\ poolCreated = 0
        /\ futures = <<>>
        /\ poolResults = <<>>
        /\ seqResults = <<>>
        /\ dProgress = <<>>
        /\ dpc = "returned" => dReturn = <<>>

\* C29 witness: the call with an empty list and the cancel event already set
\* has returned.
C29_Witness ==
    /\ entry = "run_parallel_ocr_with_text"
    /\ inputDoc = <<>>
    /\ cancelPreset
    /\ parallelEnabled
    /\ dpc = "returned"
    /\ dReturn = <<>>

\* C30: _get_max_workers returns an integer >= 1: max(1, n) for an override
\* that int() reads as n, max(1, cpu_count // 2) for an unset or unreadable
\* override; the chunk size made of it is therefore >= 1, so that each chunk
\* starts beyond the one before.
C30_WorkersAtLeastOne ==
    (entry = "_get_max_workers" /\ fnDone) =>
        LET parsed == IntOf(fnArg.env)
            cpu_count == IF fnArg.cpu = 0 THEN 2 ELSE fnArg.cpu
            half == cpu_count \div 2
        IN  /\ fnOut \in Nat
            /\ fnOut >= 1
            /\ (fnArg.env # EnvUnset /\ parsed.ok) =>
                   fnOut = (IF parsed.n >= 1 THEN parsed.n ELSE 1)
            /\ (fnArg.env = EnvUnset \/ ~parsed.ok) =>
                   fnOut = (IF half >= 1 THEN half ELSE 1)
            /\ ChunkSizeOf(fnOut) = fnOut
            /\ \A start \in 0..MaxPages : start + ChunkSizeOf(fnOut) > start

\* C30 witness: a negative override was read and answered with 1.
C30_Witness ==
    /\ entry = "_get_max_workers"
    /\ fnDone
    /\ fnArg.env = <<" ", "-", "2">>
    /\ fnArg.cpu = 4
    /\ fnOut = 1

\* The rows of the frame whose confidence is a number >= 50.
C28_Confident ==
    IF fnArg.has_conf
    THEN {i \in 1..Len(fnArg.rows) :
            fnArg.rows[i].conf[1] = "num" /\ fnArg.rows[i].conf[2] >= 50}
    ELSE {}

\* The k-th of them in table order.
C28_Nth(k) ==
    CHOOSE i \in C28_Confident : Cardinality({j \in C28_Confident : j < i}) = k - 1

C28_IsNumber(cell) == cell[1] = "num"

\* C28: the filter keeps exactly the rows whose confidence is a number >= 50,
\* in table order, and every inserted word is the trimmed, non-empty text of
\* such a row whose left, top and height are numbers.
C28_OverlayFromConfidentBoxes ==
    (entry = "page_overlay" /\ fnDone) =>
        /\ Len(fnOut.filtered) = Cardinality(C28_Confident)
        /\ \A k \in 1..Len(fnOut.filtered) :
              LET row == fnArg.rows[C28_Nth(k)]
              IN  /\ fnOut.filtered[k].conf = row.conf
                  /\ fnOut.filtered[k].left = row.left
                  /\ fnOut.filtered[k].top = row.top
                  /\ fnOut.filtered[k].height = row.height
                  /\ fnOut.filtered[k].text =
                         (IF row.text = TextMissing THEN <<>> ELSE row.text)
        /\ \A w \in 1..Len(fnOut.inserted) :
              \E i \in C28_Confident :
                  LET row == fnArg.rows[i]
                  IN  /\ row.text # TextMissing
                      /\ fnOut.inserted[w].text = Strip(row.text)
                      /\ fnOut.inserted[w].text # <<>>
                      /\ C28_IsNumber(row.left)
                      /\ C28_IsNumber(row.top)
                      /\ C28_IsNumber(row.height)
                      /\ fnOut.inserted[w].x =
                             <<row.left[2] * CoordinateScale(fnArg.caller)[1],
                               CoordinateScale(fnArg.caller)[2]>>

\* C28 witness: of a row under the threshold, a row without a confidence and
\* a row at the threshold, only the last one is inserted.
C28_Witness ==
    /\ entry = "page_overlay"
    /\ fnDone
    /\ fnArg.has_conf
    /\ Len(fnArg.rows) = 3
    /\ fnArg.rows[1].conf = <<"num", 49>>
    /\ fnArg.rows[2].conf = <<"nan", 0>>
    /\ fnArg.rows[3].conf = <<"num", 50>>
    /\ Len(fnOut.filtered) = 1
    /\ Len(fnOut.inserted) = 1
    /\ fnOut.inserted[1].text = <<"World">>

\* The no-pages notice was given to the progress callback.
C21_Noticed == \E k \in 1..Len(messages) : messages[k].kind = "no_pages"

\* C21: on a zero-page input with no cancellation (engine, input, output path
\* and font in order), create_searchable_pdf rasterizes nothing, dispatches no
\* OCR, gives the no-pages notice and ends normally with a saved document of 0
\* pages; extract_text_from_image_pdf returns "\n".
C21_ZeroPagesComplete ==
    (TotalPages = 0 /\ facts = GoodFacts /\ ~cancelSet) =>
        /\ entry = "create_searchable_pdf" =>
              /\ apc \notin {"raster", "dispatch", "ocr", "assemble"}
              /\ dpc = "idle"
              /\ chunkImages = <<>>
              /\ apc # "called" => C21_Noticed
              /\ apc \in {"done", "raised"} =>
                    (apc = "done" /\ outSaved /\ outPages = <<>>)
        /\ (entry = "extract_text_from_image_pdf" /\ apc \in {"done", "raised"}) =>
              (apc = "done" /\ textReturn = <<"\n">> /\ C21_Noticed)

\* The image the entry point makes of input page / image k.
C22_ImageOf(k) ==
    IF entry = "create_searchable_pdf_from_images"
    THEN 200 + inputDoc[k] ELSE 100 + inputDoc[k]

\* The length of the chunk that starts at chunk_start: the pool size, or what
\* is left of the input.
C22_ChunkLen ==
    IF Len(inputDoc) - chunkStart < maxWorkers
    THEN Len(inputDoc) - chunkStart ELSE maxWorkers

C22_State ==
    (entry \in AssemblerEntries /\ apc \notin {"called", "raised"}) =>
        /\ chunkStart % maxWorkers = 0
        /\ Len(chunkImages) <= maxWorkers
        /\ \A j \in 1..Len(chunkImages) : chunkImages[j] = C22_ImageOf(chunkStart + j)
        /\ apc = "raster" => (pageIdx = chunkStart + Len(chunkImages)
                                /\ Len(chunkImages) < C22_ChunkLen)
        /\ apc \in {"dispatch", "ocr", "assemble"} => Len(chunkImages) = C22_ChunkLen
        /\ apc = "ocr" => dImages = chunkImages
        /\ apc \in {"chunk", "raster", "dispatch", "ocr"} => completedPages = chunkStart
                                                           \/ completedPages = Len(inputDoc)
        /\ (apc = "done" /\ Len(inputDoc) > 0) =>
              (completedPages = Len(inputDoc) /\ pageIdx = Len(inputDoc))

C22_Step ==
    entry \in AssemblerEntries =>
        /\ pageIdx' >= pageIdx
        /\ Len(chunkImages') > Len(chunkImages) =>
              /\ apc = "raster"
              /\ pageIdx' = pageIdx + 1
              /\ chunkImages' = Append(chunkImages, C22_ImageOf(pageIdx'))
        /\ (dpc = "idle" \/ dpc \in {"returned", "raised"}) /\ dpc' \notin {dpc, "idle"} =>
              (apc = "dispatch" /\ dImages' = chunkImages)
        /\ completedPages' # completedPages =>
              (apc = "ocr" /\ completedPages' = completedPages + Len(chunkImages))

\* C22: the assemblers work on chunks that start at multiples of the pool size
\* and hold the next pool-size pages (the last one what is left): the images
\* held are never more than one chunk's, a page is rasterized once, in page
\* order, into the chunk it belongs to, and each chunk is given to the
\* dispatcher once, whole.
C22_ChunksPartitionPages == []C22_State /\ [][C22_Step]_vars

\* C22 witness: three images with a pool of two: the second chunk, of one
\* image, is at the dispatcher after the first chunk of two was completed.
C22_Witness ==
    /\ entry = "create_searchable_pdf_from_images"
    /\ Len(inputDoc) = 3
    /\ maxWorkers = 2
    /\ apc = "ocr"
    /\ chunkStart = 2
    /\ Len(chunkImages) = 1
    /\ completedPages = 2
    /\ Len(outPages) = 2

\* C23: with the recognition engine unavailable, create_searchable_pdf,
\* create_searchable_pdf_from_images and extract_text_from_image_pdf (and with
\* it extract_text_to_file) do nothing but raise OCRConversionError about the
\* engine: also for a missing input, and before the output path is prepared,
\* a page is read, OCR is dispatched or anything is reported or written.
C23_EngineCheckedFirst ==
    (entry \in AssemblerEntries /\ ~facts.engine) =>
        /\ apc \in {"called", "raised"}
        /\ apc = "raised" =>
              /\ aError = "OCRConversionError"
              /\ aDetail = "engine"
              /\ aStage = "called"
        /\ ~prepareCalled
        /\ dpc = "idle"
        /\ poolCreated = 0
        /\ chunkImages = <<>>
        /\ outPages = <<>>
        /\ messages = <<>>
        /\ ~outSaved
        /\ ~fileWritten

\* C23 witness: no engine and no input file: the engine error was raised.
C23_Witness ==
    /\ entry = "create_searchable_pdf"
    /\ ~facts.engine
    /\ ~facts.exists
    /\ apc = "raised"
    /\ aError = "OCRConversionError"
    /\ aDetail = "engine"
    /\ ~prepareCalled

\* The call has an input error: the input PDF or an image is missing, the
\* image list is empty, or the output of the image entry point is not a .pdf.
C24_InputError ==
    \/ ~facts.exists
    \/ entry = "create_searchable_pdf_from_images"
          /\ (Len(inputDoc) = 0 \/ ~facts.suffix)

\* The error the entry point raises for it.
C24_Raised ==
    IF entry = "create_searchable_pdf_from_images" /\ Len(inputDoc) = 0
    THEN aError = "OCRConversionError" /\ aDetail = "no_images"
    ELSE IF ~facts.exists
    THEN aError = "FileNotFoundError" /\ aDetail = "missing_input"
    ELSE aError = "OCRConversionError" /\ aDetail = "bad_suffix"

\* C24: with the engine available, an input error is raised at once: the
\* output path is not prepared (no directory is made), no page is read, no
\* OCR is dispatched and nothing is saved or written.
C24_InputErrorBeforeOutput ==
    (entry \in AssemblerEntries /\ facts.engine /\ C24_InputError) =>
        /\ apc \in {"called", "raised"}
        /\ apc = "raised" => (C24_Raised /\ aStage = "called")
        /\ ~prepareCalled
        /\ dpc = "idle"
        /\ poolCreated = 0
        /\ chunkImages = <<>>
        /\ outPages = <<>>
        /\ ~outSaved
        /\ ~fileWritten

\* C24 witness: images that exist and an output path that does not end in
\* .pdf (and could not be prepared either): the suffix error was raised.
C24_Witness ==
    /\ entry = "create_searchable_pdf_from_images"
    /\ Len(inputDoc) = 2
    /\ facts.engine
    /\ facts.exists
    /\ ~facts.suffix
    /\ ~facts.prepare
    /\ apc = "raised"
    /\ aError = "OCRConversionError"
    /\ aDetail = "bad_suffix"
    /\ ~prepareCalled

\* C25: what escapes create_searchable_pdf, create_searchable_pdf_from_images,
\* extract_text_from_image_pdf and extract_text_to_file is OCRConversionError,
\* OCRCancelledError or the FileNotFoundError of the missing-input check; an
\* exception of the engine or a library raised while pages are rasterized,
\* recognized, assembled, saved or written reaches the caller as
\* OCRConversionError, and OCRCancelledError only comes from a cancellation.
C25_OnlyDomainErrorsEscape ==
    (entry \in AssemblerEntries /\ apc = "raised") =>
        /\ aError \in {"OCRConversionError", "OCRCancelledError", "FileNotFoundError"}
        /\ aError = "FileNotFoundError" => (aDetail = "missing_input" /\ aStage = "called")
        /\ aError = "OCRCancelledError" => aCause = "OCRCancelledError"
        /\ (aStage \in {"raster", "ocr", "assemble", "save", "write"}
                /\ aCause # "OCRCancelledError") => aError = "OCRConversionError"

\* C25 witness: a TesseractError of a worker ended the call as the
\* OCRConversionError of the except pytesseract.TesseractError clause.
C25_Witness ==
    /\ entry = "create_searchable_pdf_from_images"
    /\ apc = "raised"
    /\ aStage = "ocr"
    /\ aCause = "TesseractError"
    /\ aError = "OCRConversionError"
    /\ aDetail = "ocr"

\* C26: when output_doc.save(...) fails in create_searchable_pdf or
\* create_searchable_pdf_from_images, the caller gets OCRConversionError, and
\* it is the permission error (PDFを書き込めませんでした。権限を確認してください)
\* exactly when the save raised PermissionError.
C26_PermissionErrorKept ==
    (entry \in PdfEntries /\ apc = "raised" /\ aStage = "save") =>
        /\ aError = "OCRConversionError"
        /\ aDetail = "permission" <=> aCause = "PermissionError"

\* The words of the page with content 1 once the insertion of its first word
\* ("Hello") has raised RuntimeError: the second word alone, in page points.
C27_WordsOf(content) ==
    IF content # 1 THEN <<>>
    ELSE IF entry = "create_searchable_pdf_from_images"
    THEN <<[text |-> <<"World">>, x |-> <<720, 300>>, y |-> <<3600, 300>>,
            fontsize |-> <<5760, 3000>>]>>
    ELSE <<[text |-> <<"World">>, x |-> <<10, 1>>, y |-> <<50, 1>>,
            fontsize |-> <<80, 10>>]>>

\* C27: a text insertion that raises RuntimeError costs that word only: the
\* page is added with its image and the words after the failed one, the pages
\* after it are added too, the failure never ends the call, and a call that
\* ends normally has saved a document with every page.
C27_FailedWordSkippedOnly ==
    entry \in PdfEntries =>
        /\ Len(outPages) <= Len(inputDoc)
        /\ \A k \in 1..Len(outPages) :
              /\ outPages[k].image % 100 = inputDoc[k]
              /\ outPages[k].words = C27_WordsOf(inputDoc[k])
        /\ apc = "raised" => aCause # "RuntimeError"
        /\ apc = "done" => (outSaved /\ Len(outPages) = Len(inputDoc))

\* C27 witness: the first and the third page have a word whose insertion
\* failed; all three pages were added and the document was saved.
C27_Witness ==
    /\ entry = "create_searchable_pdf"
    /\ inputDoc = <<1, 2, 1>>
    /\ apc = "done"
    /\ outSaved
    /\ Len(outPages) = 3
    /\ Len(FilteredRows(outPages[1].ocr)) = 2
    /\ InsertTextRaises(FilteredRows(outPages[1].ocr)[1])
    /\ Len(outPages[1].words) = 1
    /\ outPages[3].words = outPages[1].words

\* C31: remove_pdf_password calls doc.save only when the input exists, the
\* resolved paths differ, the document is encrypted, the password is non-empty
\* and authentication succeeds.  When one of these fails it raises:
\* FileNotFoundError for a missing input, else ValueError for equal paths, else
\* (for a document fitz.open opened) PDFPasswordRemovalError for a document that
\* is not encrypted, else for an empty password, else for a wrong one; and in
\* none of these cases is the output directory created or a file written.
C31_Conditions(c) ==
    /\ c.exists
    /\ ~c.same_path
    /\ c.is_encrypted
    /\ Len(c.password) > 0
    /\ c.password = c.user_password

C31_Expected(c) ==
    IF ~c.exists THEN <<"FileNotFoundError", "input">>
    ELSE IF c.same_path THEN <<"ValueError", "same_path">>
    ELSE IF ~c.is_encrypted THEN <<"PDFPasswordRemovalError", "not_encrypted">>
    ELSE IF Len(c.password) = 0 THEN <<"PDFPasswordRemovalError", "empty_password">>
    ELSE <<"PDFPasswordRemovalError", "wrong_password">>

C32_ProgressCountsUpOnce ==
    dpc = "returned" => dProgress = [k \in 1..Total |-> <<k, Total>>]

\* C33: every progress message of an entry point reports the pages of all
\* earlier chunks plus the results the dispatcher has collected so far in the
\* current chunk; the count lies in 1..total_pages, and the last message of a
\* successful run on a document with pages reports total_pages.
C33_Collected == Len(seqResults) + Cardinality(DOMAIN poolResults)

C33_Step ==
    (entry \in AssemblerEntries /\ messages' # messages) =>
        /\ Len(messages') = Len(messages) + 1
        /\ LET last == messages'[Len(messages')]
           IN  last.kind = "progress" =>
                  /\ last.count = chunkStart + C33_Collected'
                  /\ last.count >= 1
                  /\ last.count <= TotalPages

C33_LastReportsTotal ==
    (entry \in AssemblerEntries /\ apc = "done" /\ TotalPages > 0) =>
        /\ messages # <<>>
        /\ messages[Len(messages)] = [kind |-> "progress", count |-> TotalPages]

C33_ProgressCountsPages == []C33_LastReportsTotal /\ [][C33_Step]_vars

\* A run over more than one chunk ended, and its second chunk had reported
\* progress while it still held a single result.
C33_Witness ==
    /\ entry \in AssemblerEntries
    /\ apc = "done"
    /\ chunkStart = TotalPages
    /\ ChunkSize < TotalPages
    /\ \E k \in 1..Len(messages) :
          messages[k] = [kind |-> "progress", count |-> ChunkSize + 1]

\* C34: in the sequential path, once the cancel event is set no further worker
\* is started: the image whose worker is running completes and its progress is
\* reported, and the next per-image check raises OCRCancelledError without
\* returning the results collected so far.  The event stays set.
C34_Step ==
    /\ cancelSet => cancelSet'
    /\ (dpc = "seq_check" /\ cancelSet /\ dpc' # dpc) =>
          /\ dpc' = "raised"
          /\ dError' = "OCRCancelledError"
          /\ dReturn' = <<>>
          /\ seqResults' = seqResults
          /\ dProgress' = dProgress
    /\ (dpc = "seq_work" /\ cancelSet /\ dpc' = "seq_progress") =>
          Len(seqResults') = Len(seqResults) + 1
    /\ (dpc = "seq_progress" /\ cancelSet /\ dpc' # dpc) =>
          /\ dProgress' = Append(dProgress, <<seqIdx, Total>>)
          /\ dpc' = (IF seqIdx < Total THEN "seq_check" ELSE "returned")

C34_State ==
    (dError = "OCRCancelledError" /\ dpc = "raised") => dReturn = <<>>

C35_Busy == {"called", "pool_start", "pool_collect", "seq_check", "seq_work", "seq_progress"}

C35_Ended == dpc \in {"returned", "raised"}

C35_Complete ==
    dpc = "returned" =>
        /\ Len(dReturn) = Len(dImages)
        /\ \A k \in 1..Len(dImages) : dReturn[k].src = dImages[k]

C35_DispatchTerminates == []C35_Complete /\ ((dpc \in C35_Busy) ~> C35_Ended)

\* A pool served more images than it has processes and the call returned.
C35_Witness ==
    /\ dpc = "returned"
    /\ poolCreated > 0
    /\ ~fellBack
    /\ Len(dImages) > maxWorkers
    /\ Len(dReturn) = Len(dImages)

\* C36: the confidence of the result _perform_adaptive_ocr returns is never
\* below the baseline pass's best: it is the larger of the baseline best and
\* the preprocessed best when the preprocessed pass ran and the baseline best
\* otherwise; used_preprocessing implies a baseline best below the acceptance
\* threshold.
C36_Less(a, b) == a[1] * b[2] < b[1] * a[2]

C36_Max(a, b) == IF C36_Less(a, b) THEN b ELSE a

C36_Same(a, b) == ~C36_Less(a, b) /\ ~C36_Less(b, a)

C36_ResultAtLeastBaseline ==
    epc = "returned" =>
        /\ ~C36_Less(engResult.average, baseAverage)
        /\ engPass = "pre" =>
              C36_Same(engResult.average, C36_Max(baseAverage, PassAverage))
        /\ engPass = "base" => C36_Same(engResult.average, baseAverage)
        /\ engResult.used_preprocessing =>
              (engPass = "pre" /\ C36_Less(baseAverage, <<AverageConfidenceThreshold, 1>>))

\* The preprocessed pass ran after a baseline that had read something, and
\* did better.
C36_Witness ==
    /\ epc = "returned"
    /\ engPass = "pre"
    /\ C36_Less(<<0, 1>>, baseAverage)
    /\ C36_Less(baseAverage, PassAverage)
    /\ engResult.used_preprocessing

\* C37: in a run of an entry point with a worker count of 1, or with
\* parallelism disabled, no process pool is ever created; with one worker
\* every dispatch receives exactly one image and takes the sequential path.
C37_NoPoolWithOneWorker ==
    (entry \in AssemblerEntries /\ (maxWorkers = 1 \/ ~parallelEnabled)) =>
        /\ poolCreated = 0
        /\ dpc \in {"idle", "seq_check", "seq_work", "seq_progress", "returned", "raised"}
        /\ (maxWorkers = 1 /\ apc = "ocr") => Len(dImages) = 1

\* A run with parallelism enabled and one worker has finished a document of
\* several pages without a pool.
C37_Witness ==
    /\ entry \in AssemblerEntries
    /\ maxWorkers = 1
    /\ parallelEnabled
    /\ TotalPages >= 2
    /\ apc = "done"
    /\ poolCreated = 0

\* C38: the text _reconstruct_text_from_frame returns does not begin or end
\* with a newline, has no more than one blank line in a row (never three
\* newlines together), and its words are exactly the trimmed texts of the kept
\* boxes, each once, in table order.
C38_Kept(row) ==
    /\ row.conf[1] # "str"
    /\ ~(row.conf[1] = "num" /\ row.conf[2] < 0)
    /\ \E i \in 1..Len(row.text) : row.text[i] # " "

C38_IsWord(c) == c \notin {" ", "\n"}

C38_WordsOfKept(frame) ==
    LET kept == SelectSeq(frame, C38_Kept)
    IN  [k \in 1..Len(kept) |-> SelectSeq(kept[k].text, C38_IsWord)]

C38_ShapeOfText ==
    (entry = "_reconstruct_text_from_frame" /\ fnDone) =>
        /\ fnOut # <<>> => (fnOut[1] # "\n" /\ fnOut[Len(fnOut)] # "\n")
        /\ \A i \in 1..(Len(fnOut) - 2) :
              ~(fnOut[i] = "\n" /\ fnOut[i + 1] = "\n" /\ fnOut[i + 2] = "\n")
        /\ [k \in 1..Len(SelectSeq(fnOut, C38_IsWord)) |->
               <<SelectSeq(fnOut, C38_IsWord)[k]>>] = C38_WordsOfKept(fnArg)

\* A table that starts with a skipped box, followed by two kept boxes of
\* different blocks: the text is two words around one blank line.
C38_Witness ==
    /\ entry = "_reconstruct_text_from_frame"
    /\ fnDone
    /\ Len(fnArg) = 3
    /\ ~C38_Kept(fnArg[1]) /\ C38_Kept(fnArg[2]) /\ C38_Kept(fnArg[3])
    /\ fnArg[3].block_num # fnArg[2].block_num
    /\ Len(fnOut) = 4
    /\ fnOut[2] = "\n" /\ fnOut[3] = "\n"

====
